---- MODULE Spec2Model ----
(***************************************************************************)
(* A model of the E2EE class of e2ee.js (src/e2ee.ts): the key pair        *)
(* lifecycle, the shared-secret store, the message cipher and marshalling, *)
(* with every `await` of the class as a point where other calls on the     *)
(* same identity may run.                                                  *)
(*                                                                         *)
(* The injected WebCrypto provider is a library outside the class.  It is  *)
(* modelled by small deterministic stand-ins that keep the algebra the     *)
(* class relies on: Diffie-Hellman agreement is computed in the            *)
(* multiplicative group modulo 23, and AES-CTR is an XOR of the data with  *)
(* a keystream that depends on the key, the counter block and the          *)
(* position.  Text conversions (TextEncoder, TextDecoder,                  *)
(* String.fromCharCode, charCodeAt) are computed byte by byte.             *)
(***************************************************************************)
EXTENDS Integers, Sequences, FiniteSets, Bags, TLC

\* ------------------------------------------------------------------ bounds
\* Calls of one identity that may be in flight (awaiting the provider) at once.
MaxPending == 2
\* Key pairs the provider generates for one identity in one behaviour.
MaxKeys == 2
\* Length, in UTF-16 code units, of the plaintexts the callers encrypt.
MaxMsgLen == 2

\* ------------------------------------------------------------ basic values
Null == [kind |-> "null"]

Ok(v) == [ok |-> TRUE, value |-> v, error |-> "none"]
Err(e) == [ok |-> FALSE, value |-> Null, error |-> e]

RECURSIVE ModExp(_, _, _)
ModExp(b, e, m) == IF e = 0 THEN 1 % m ELSE (b * ModExp(b, e - 1, m)) % m

RECURSIVE Xor(_, _)
Xor(a, b) ==
    IF a = 0 THEN b
    ELSE IF b = 0 THEN a
    ELSE (((a % 2) + (b % 2)) % 2) + 2 * Xor(a \div 2, b \div 2)

\* ---------------------------------------------------- text <-> byte codecs
\* Strings are sequences of UTF-16 code units, as in JavaScript.
IsHighSurrogate(u) == u >= 55296 /\ u <= 56319
IsLowSurrogate(u) == u >= 56320 /\ u <= 57343

\* The UTF-8 bytes of one scalar value.
Utf8Bytes(cp) ==
    IF cp < 128 THEN <<cp>>
    ELSE IF cp < 2048 THEN <<192 + (cp \div 64), 128 + (cp % 64)>>
    ELSE IF cp < 65536
        THEN <<224 + (cp \div 4096), 128 + ((cp \div 64) % 64), 128 + (cp % 64)>>
    ELSE <<240 + (cp \div 262144), 128 + ((cp \div 4096) % 64),
           128 + ((cp \div 64) % 64), 128 + (cp % 64)>>

\* TextEncoder.encode: a surrogate pair is one scalar value, a lone surrogate
\* is replaced by U+FFFD.
RECURSIVE EncodeFrom(_, _)
EncodeFrom(text, i) ==
    IF i > Len(text) THEN <<>>
    ELSE IF IsHighSurrogate(text[i]) /\ i < Len(text) /\ IsLowSurrogate(text[i + 1])
        THEN Utf8Bytes(65536 + (text[i] - 55296) * 1024 + (text[i + 1] - 56320))
             \o EncodeFrom(text, i + 2)
    ELSE IF IsHighSurrogate(text[i]) \/ IsLowSurrogate(text[i])
        THEN Utf8Bytes(65533) \o EncodeFrom(text, i + 1)
    ELSE Utf8Bytes(text[i]) \o EncodeFrom(text, i + 1)

stringToUint8Array(text) == EncodeFrom(text, 1)

\* The UTF-16 code units of one scalar value.
Utf16Units(cp) ==
    IF cp < 65536 THEN <<cp>>
    ELSE <<55296 + ((cp - 65536) \div 1024), 56320 + ((cp - 65536) % 1024)>>

\* The UTF-8 decoder of the Encoding standard, not fatal: `needed` and `seen`
\* count continuation bytes, `lower` and `upper` bound the next one, and a
\* malformed sequence yields U+FFFD and the offending byte is read again.
RECURSIVE DecodeFrom(_, _, _, _, _, _, _)
DecodeFrom(bytes, i, needed, seen, cp, lower, upper) ==
    IF i > Len(bytes)
        THEN IF needed = 0 THEN <<>> ELSE Utf16Units(65533)
    ELSE LET b == bytes[i] IN
        IF needed = 0 THEN
            IF b < 128 THEN Utf16Units(b) \o DecodeFrom(bytes, i + 1, 0, 0, 0, 128, 191)
            ELSE IF b >= 194 /\ b <= 223
                THEN DecodeFrom(bytes, i + 1, 1, 0, b - 192, 128, 191)
            ELSE IF b >= 224 /\ b <= 239
                THEN DecodeFrom(bytes, i + 1, 2, 0, b - 224,
                                IF b = 224 THEN 160 ELSE 128,
                                IF b = 237 THEN 159 ELSE 191)
            ELSE IF b >= 240 /\ b <= 244
                THEN DecodeFrom(bytes, i + 1, 3, 0, b - 240,
                                IF b = 240 THEN 144 ELSE 128,
                                IF b = 244 THEN 143 ELSE 191)
            ELSE Utf16Units(65533) \o DecodeFrom(bytes, i + 1, 0, 0, 0, 128, 191)
        ELSE IF b < lower \/ b > upper
            THEN Utf16Units(65533) \o DecodeFrom(bytes, i, 0, 0, 0, 128, 191)
        ELSE IF seen + 1 = needed
            THEN Utf16Units(cp * 64 + (b - 128))
                 \o DecodeFrom(bytes, i + 1, 0, 0, 0, 128, 191)
        ELSE DecodeFrom(bytes, i + 1, needed, seen + 1, cp * 64 + (b - 128), 128, 191)

\* new TextDecoder().decode: UTF-8, errors replaced, and (ignoreBOM being
\* false) a leading byte order mark EF BB BF is dropped.
uint8ArrayToString(bytes) ==
    IF Len(bytes) >= 3 /\ bytes[1] = 239 /\ bytes[2] = 187 /\ bytes[3] = 191
        THEN DecodeFrom(bytes, 4, 0, 0, 0, 128, 191)
        ELSE DecodeFrom(bytes, 1, 0, 0, 0, 128, 191)

\* String.fromCharCode(...bytes): one code unit per byte.
FromCharCodes(bytes) == [i \in 1..Len(bytes) |-> bytes[i] % 65536]

\* [...text].map(c => c.charCodeAt(0)): the string is walked by code point
\* (a surrogate pair is one element) and the first code unit of each is
\* stored into a Uint8Array, which keeps it modulo 256.
RECURSIVE CharCodesFrom(_, _)
CharCodesFrom(text, i) ==
    IF i > Len(text) THEN <<>>
    ELSE IF IsHighSurrogate(text[i]) /\ i < Len(text) /\ IsLowSurrogate(text[i + 1])
        THEN <<text[i] % 256>> \o CharCodesFrom(text, i + 2)
    ELSE <<text[i] % 256>> \o CharCodesFrom(text, i + 1)

\* JSON.stringify of a plain value: the text that JSON.parse reads back as
\* that value.  A text that is not JSON is [kind |-> "raw"].
JsonText(v) == [kind |-> "json", value |-> v]
RawText == [kind |-> "raw"]

\* JSON.parse: throws SyntaxError on a text that is not JSON.
JsonParse(text) ==
    IF text.kind = "json" THEN Ok(text.value) ELSE Err("SyntaxError")

\* The hexadecimal digit of n as JSON.stringify writes it, and the value of
\* a hexadecimal digit as JSON.parse reads it (-1: not a digit).
HexDigit(n) == IF n < 10 THEN 48 + n ELSE 87 + n
HexValue(ch) ==
    IF ch \in 48..57 THEN ch - 48
    ELSE IF ch \in 97..102 THEN ch - 87
    ELSE IF ch \in 65..70 THEN ch - 55
    ELSE -1

\* JSON.stringify of one code unit inside a string: the quote and the
\* backslash are escaped, the control characters are written in their short
\* form or as \u00xx, every other code unit of a byte is written as it is.
JsonEscape(u) ==
    IF u = 34 THEN <<92, 34>>
    ELSE IF u = 92 THEN <<92, 92>>
    ELSE IF u = 8 THEN <<92, 98>>
    ELSE IF u = 9 THEN <<92, 116>>
    ELSE IF u = 10 THEN <<92, 110>>
    ELSE IF u = 12 THEN <<92, 102>>
    ELSE IF u = 13 THEN <<92, 114>>
    ELSE IF u < 32
        THEN <<92, 117, HexDigit(u \div 4096), HexDigit((u \div 256) % 16),
               HexDigit((u \div 16) % 16), HexDigit(u % 16)>>
    ELSE <<u>>

\* The characters JSON.stringify writes between the quotes for a string.
RECURSIVE JsonQuote(_)
JsonQuote(units) ==
    IF units = <<>> THEN <<>> ELSE JsonEscape(Head(units)) \o JsonQuote(Tail(units))

\* The escape at position i of the characters between the quotes: the code
\* unit it stands for and the position after it, or a SyntaxError.
JsonEscapeAt(chars, i) ==
    LET e == IF i + 1 <= Len(chars) THEN chars[i + 1] ELSE -1
        simple == CASE e = 34 -> 34 [] e = 92 -> 92 [] e = 47 -> 47
                    [] e = 98 -> 8 [] e = 102 -> 12 [] e = 110 -> 10
                    [] e = 114 -> 13 [] e = 116 -> 9 [] OTHER -> -1
    IN  IF simple >= 0 THEN Ok([unit |-> simple, next |-> i + 2])
        ELSE IF e = 117 /\ i + 5 <= Len(chars)
                /\ \A k \in 2..5 : HexValue(chars[i + k]) >= 0
            THEN Ok([unit |-> 4096 * HexValue(chars[i + 2]) + 256 * HexValue(chars[i + 3])
                              + 16 * HexValue(chars[i + 4]) + HexValue(chars[i + 5]),
                     next |-> i + 6])
        ELSE Err("SyntaxError")

\* JSON.parse of the characters between the quotes of a string: a control
\* character or a quote as it is, or a bad escape, is a SyntaxError.
RECURSIVE JsonUnquoteFrom(_, _)
JsonUnquoteFrom(chars, i) ==
    IF i > Len(chars) THEN Ok(<<>>)
    ELSE IF chars[i] < 32 \/ chars[i] = 34 THEN Err("SyntaxError")
    ELSE LET one == IF chars[i] = 92 THEN JsonEscapeAt(chars, i)
                    ELSE Ok([unit |-> chars[i], next |-> i + 1])
         IN  IF ~one.ok THEN one
             ELSE LET rest == JsonUnquoteFrom(chars, one.value.next)
                  IN  IF rest.ok THEN Ok(<<one.value.unit>> \o rest.value) ELSE rest

JsonUnquote(chars) == JsonUnquoteFrom(chars, 1)

\* ------------------------------------------------ the WebCrypto provider
\* An ECDH key on curve crv: the private scalar d (0 on a public key) and the
\* public point q.
EcKey(type, crv, d, q, extractable, usages) ==
    [kind |-> "key", type |-> type, crv |-> crv, d |-> d, q |-> q,
     extractable |-> extractable, usages |-> usages]

\* An AES-CTR key of `length` bits cut from the agreed secret `bits`.
AesKey(bits, length) ==
    [kind |-> "key", type |-> "secret", bits |-> bits, length |-> length,
     extractable |-> FALSE, usages |-> {"encrypt", "decrypt"}]

KeyPairOf(privateKey, publicKey) ==
    [kind |-> "keyPair", privateKey |-> privateKey, publicKey |-> publicKey]

PublicPoint(d) == ModExp(5, d, 23)

\* subtle.generateKey({name: "ECDH", namedCurve}, extractable, usages) with
\* the provider's randomness yielding the private scalar d: usages other than
\* deriveKey and deriveBits are a SyntaxError; the public key is always
\* extractable and has no usages.
ProviderGenerateKey(namedCurve, extractable, usages, d) ==
    IF ~(usages \subseteq {"deriveKey", "deriveBits"}) THEN Err("SyntaxError")
    ELSE IF usages = {} THEN Err("SyntaxError")
    ELSE Ok(KeyPairOf(
            EcKey("private", namedCurve, d, PublicPoint(d), extractable, usages),
            EcKey("public", namedCurve, 0, PublicPoint(d), TRUE, {})))

\* The JSON Web Key of an ECDH key.
Jwk(key) ==
    [kind |-> "jwk", kty |-> "EC", crv |-> key.crv, x |-> key.q, d |-> key.d,
     key_ops |-> key.usages, ext |-> key.extractable]

\* subtle.exportKey("jwk", key): only an extractable key is exported.
ProviderExportKey(key) ==
    IF key.kind # "key" THEN Err("TypeError")
    ELSE IF ~key.extractable THEN Err("InvalidAccessError")
    ELSE Ok(Jwk(key))

\* subtle.importKey("jwk", keyData, {name: "ECDH", namedCurve}, extractable,
\* usages).
ProviderImportKey(keyData, namedCurve, extractable, usages) ==
    IF keyData.kind # "jwk" THEN Err("DataError")
    ELSE IF keyData.d # 0 /\ ~(usages \subseteq {"deriveKey", "deriveBits"})
        THEN Err("SyntaxError")
    ELSE IF keyData.d = 0 /\ usages # {} THEN Err("SyntaxError")
    ELSE IF keyData.kty # "EC" THEN Err("DataError")
    ELSE IF ~(usages \subseteq keyData.key_ops) THEN Err("DataError")
    ELSE IF extractable /\ ~keyData.ext THEN Err("DataError")
    ELSE IF keyData.crv # namedCurve THEN Err("DataError")
    ELSE IF keyData.d # 0 /\ usages = {} THEN Err("SyntaxError")
    ELSE Ok(EcKey(IF keyData.d # 0 THEN "private" ELSE "public", keyData.crv,
                  keyData.d, keyData.x, extractable, usages))

\* A deriveKey that makes a key of 256 bits whatever length it is asked for.
ProviderDeriveKeyFixedLength(public, baseKey, length) ==
    IF baseKey.kind # "key" \/ public.kind # "key" THEN Err("TypeError")
    ELSE IF "deriveKey" \notin baseKey.usages THEN Err("InvalidAccessError")
    ELSE IF baseKey.type # "private" \/ public.type # "public"
        THEN Err("InvalidAccessError")
    ELSE IF baseKey.crv # public.crv THEN Err("InvalidAccessError")
    ELSE Ok(AesKey(ModExp(public.q, baseKey.d, 23), 256))

\* subtle.deriveKey({name: "ECDH", public}, baseKey, {name: "AES-CTR", length},
\* false, ["encrypt", "decrypt"]): the agreed secret is public^d.
ProviderDeriveKey(public, baseKey, length) ==
    IF baseKey.kind # "key" \/ public.kind # "key" THEN Err("TypeError")
    ELSE IF "deriveKey" \notin baseKey.usages THEN Err("InvalidAccessError")
    ELSE IF baseKey.type # "private" \/ public.type # "public"
        THEN Err("InvalidAccessError")
    ELSE IF baseKey.crv # public.crv THEN Err("InvalidAccessError")
    ELSE Ok(AesKey(ModExp(public.q, baseKey.d, 23), length))

\* The counter block of block j: j is added to the low `length` bits of the
\* 16-byte counter, the other bits stay.
RECURSIVE AddToCounter(_, _, _, _)
AddToCounter(counter, i, lowest, carry) ==
    IF i < lowest \/ carry = 0 THEN counter
    ELSE AddToCounter([counter EXCEPT ![i] = (counter[i] + carry) % 256],
                      i - 1, lowest, (counter[i] + carry) \div 256)

CounterBlock(counter, j, length) ==
    AddToCounter(counter, 16, 17 - (length \div 8), j)

RECURSIVE BlockDigest(_, _)
BlockDigest(block, i) ==
    IF i > Len(block) THEN 0 ELSE (i * block[i] + BlockDigest(block, i + 1)) % 256

\* The keystream byte at position pos (from 0): a function of the key, of the
\* counter block of its 16-byte block, and of the position in the block.
KeystreamByte(key, counter, length, pos) ==
    (17 * key.bits + (key.length \div 64)
     + BlockDigest(CounterBlock(counter, pos \div 16, length), 1)
     + 31 * (pos % 16)) % 256

\* AES-CTR is the same transformation in both directions.
AesCtr(key, counter, length, data) ==
    [i \in 1..Len(data) |-> Xor(data[i], KeystreamByte(key, counter, length, i - 1))]

\* subtle.encrypt / subtle.decrypt({name: "AES-CTR", counter, length}, key, data).
ProviderCrypt(usage, key, counter, length, data) ==
    IF key.kind # "key" THEN Err("TypeError")
    ELSE IF key.type # "secret" \/ usage \notin key.usages THEN Err("InvalidAccessError")
    ELSE IF Len(counter) # 16 \/ length < 1 \/ length > 128 THEN Err("OperationError")
    ELSE Ok(AesCtr(key, counter, length, data))

ProviderEncrypt(key, counter, length, data) ==
    ProviderCrypt("encrypt", key, counter, length, data)

ProviderDecrypt(key, counter, length, data) ==
    ProviderCrypt("decrypt", key, counter, length, data)

\* ------------------------------------------------------------ the E2EE class
Parties == {"A", "B", "C"}

\* Peer identifiers: the class's private Symbol("unicast"), and strings.
\* The default identifier as the string "unicast" instead of a symbol.
unicastAsString == [kind |-> "string", name |-> "unicast"]
unicast == [kind |-> "symbol", description |-> "unicast"]
Str(name) == [kind |-> "string", name |-> name]
\* The identifier argument left out by the caller.
Omitted == [kind |-> "omitted"]
\* The default parameter `identifier = this.#unicast`.
Resolve(identifier) == IF identifier = Omitted THEN unicast ELSE identifier
Identifiers == {unicast, Str("unicast"), Str("A"), Str("B"), Str("C"), Str("constructor")}

\* Names every plain object inherits from Object.prototype.
ObjectPrototypeNames == {"constructor", "toString", "valueOf", "hasOwnProperty"}

DefaultParams == [counterLength |-> 64, namedCurve |-> "P-256", keyLength |-> 256]

VARIABLES
    params,         \* #params of each identity; Null: not constructed
    keyPair,        \* #keyPair of each identity, or Null
    sharedSecrets,  \* #sharedSecrets: the own entries, Null where there is none
    pending,        \* the calls of each identity that await the provider
    last,           \* the outcome of the call the latest step settled, or Null
    nextKey,        \* how many key pairs the provider generated for each identity
    streams         \* the transform stages the identities returned, and their pipe

vars == <<params, keyPair, sharedSecrets, pending, last, nextKey, streams>>

EmptyStore == [id \in Identifiers |-> Null]

\* No stage was returned yet, and nothing was written to or read from a pipe.
NoStreams ==
    [encrypt |-> Null, decrypt |-> Null, written |-> <<>>, wire |-> <<>>,
     read |-> <<>>]

\* this.#sharedSecrets[identifier] on the object literal {}: an own entry,
\* else what the prototype chain gives for a string name.
Lookup(store, identifier) ==
    IF store[identifier] # Null THEN store[identifier]
    ELSE IF identifier.kind = "string" /\ identifier.name \in ObjectPrototypeNames
        THEN [kind |-> "function"]
    ELSE Null

Constructed(p) == params[p] # Null
InFlight(p) == BagCardinality(pending[p])

\* A call in flight: the provider's answer `held` it awaits, and whether
\* the identity had a key pair and an own entry for the identifier when the
\* call was issued.
Call(op, pc, identifier, input, held, p, trace) ==
    [call |-> op, pc |-> pc, arg |-> identifier, id |-> Resolve(identifier),
     input |-> input, held |-> held,
     hadKeyPair |-> keyPair[p] # Null,
     hadSecret |-> sharedSecrets[p][Resolve(identifier)] # Null,
     trace |-> trace]

\* The outcome of a call, with the key pair and the store as they were just
\* before the step that settled it.
Outcome(p, c, result) ==
    [call |-> c.call, party |-> p, arg |-> c.arg, id |-> c.id, input |-> c.input,
     ok |-> result.ok, error |-> result.error, value |-> result.value,
     hadKeyPair |-> c.hadKeyPair, hadSecret |-> c.hadSecret,
     kpBefore |-> keyPair[p], storeBefore |-> sharedSecrets[p],
     trace |-> c.trace]

Await(p, c) ==
    /\ pending' = [pending EXCEPT ![p] = @ (+) SetToBag({c})]
    /\ last' = Null
    /\ UNCHANGED streams
Resume(p, c, c2) ==
    /\ pending' = [pending EXCEPT ![p] = (@ (-) SetToBag({c})) (+) SetToBag({c2})]
    /\ last' = Null
    /\ UNCHANGED streams
Settle(p, c, result) ==
    /\ pending' = [pending EXCEPT ![p] = @ (-) SetToBag({c})]
    /\ last' = Outcome(p, c, result)
    /\ UNCHANGED streams
\* A call that throws before its first await.
Throw(p, c, error) ==
    /\ last' = Outcome(p, c, Err(error))
    /\ UNCHANGED <<pending, streams>>

NoInput == [kind |-> "none"]

\* A constructor whose defaults win over the parameters it is given.
ConstructorDefaultsWin(given) ==
    [f \in DOMAIN DefaultParams |-> DefaultParams[f]]

\* constructor: Object.assign(this.#params, options?.params) over the
\* defaults of a fresh instance; no key pair, no secrets.
Constructor(given) ==
    [f \in DOMAIN DefaultParams |-> IF f \in DOMAIN given THEN given[f] ELSE DefaultParams[f]]

\* new E2EE({params: given}): the identity p comes to exist.  `from` names
\* the identity whose exported parameters `given` is, or is "none".
construct(p, given, from) ==
    /\ ~Constructed(p)
    /\ params' = [params EXCEPT ![p] = Constructor(given)]
    /\ last' = Outcome(p, Call("constructor", "done", Omitted,
                               [given |-> given, from |-> from], Null, p, <<>>),
                       Ok(Null))
    /\ UNCHANGED <<keyPair, sharedSecrets, pending, nextKey, streams>>

\* exportParams: returns the parameters of the identity, in any state.
exportParams(p) ==
    /\ Constructed(p)
    /\ last' = Outcome(p, Call("exportParams", "done", Omitted, NoInput, Null, p, <<>>),
                       Ok(params[p]))
    /\ UNCHANGED <<params, keyPair, sharedSecrets, pending, nextKey, streams>>

\* ---------------------------------------------------------- generateKeyPair
\* The private scalar the provider's randomness yields for the next key pair
\* of p: never one it yielded before, for p or for another identity.
FreshScalar(p) ==
    (CASE p = "A" -> 1 [] p = "B" -> 4 [] OTHER -> 7) + nextKey[p]

\* generateKeyPair without its presence check.
generateKeyPairUnchecked(p, extractable, additionalUsages) ==
    LET c == Call("generateKeyPair", "generated", Omitted,
                  [extractable |-> extractable, usages |-> additionalUsages],
                  ProviderGenerateKey(params[p].namedCurve, extractable,
                                      {"deriveKey"} \cup additionalUsages,
                                      FreshScalar(p)),
                  p, <<"generateKey">>)
    IN  /\ Constructed(p)
        /\ InFlight(p) < MaxPending
        /\ nextKey[p] < MaxKeys
        /\ Await(p, c)
        /\ nextKey' = IF c.held.ok THEN [nextKey EXCEPT ![p] = @ + 1] ELSE nextKey
        /\ UNCHANGED <<params, keyPair, sharedSecrets>>

generateKeyPair(p, extractable, additionalUsages) ==
    LET c == Call("generateKeyPair", "generated", Omitted,
                  [extractable |-> extractable, usages |-> additionalUsages],
                  ProviderGenerateKey(params[p].namedCurve, extractable,
                                      {"deriveKey"} \cup additionalUsages,
                                      FreshScalar(p)),
                  p, <<"generateKey">>)
    IN  /\ Constructed(p)
        /\ IF keyPair[p] # Null
              THEN /\ Throw(p, [c EXCEPT !.held = Null, !.trace = <<>>],
                            "Key pair already exists")
                   /\ UNCHANGED nextKey
              ELSE /\ InFlight(p) < MaxPending
                   /\ nextKey[p] < MaxKeys
                   /\ Await(p, c)
                   /\ nextKey' = IF c.held.ok THEN [nextKey EXCEPT ![p] = @ + 1]
                                              ELSE nextKey
        /\ UNCHANGED <<params, keyPair, sharedSecrets>>

\* The continuation after `await subtle.generateKey(...)`: the assignment.
generateKeyPairResume(p) ==
    \E c \in BagToSet(pending[p]) :
        /\ c.call = "generateKeyPair"
        /\ Settle(p, c, IF c.held.ok THEN Ok(Null) ELSE c.held)
        /\ keyPair' = IF c.held.ok THEN [keyPair EXCEPT ![p] = c.held.value] ELSE keyPair
        /\ UNCHANGED <<params, sharedSecrets, nextKey>>

\* ------------------------------------------------- #marshalKey and exports
\* #marshalKey: JSON.stringify(await subtle.exportKey("jwk", key)).
marshalKey(key) ==
    LET exported == ProviderExportKey(key)
    IN  IF exported.ok THEN Ok(JsonText(exported.value)) ELSE exported

\* exportPublicKey with the extractability check of exportPrivateKey.
exportPublicKeyIfExtractable(p) ==
    LET c == Call("exportPublicKey", "exported", Omitted, NoInput, Null, p, <<>>)
    IN  /\ Constructed(p)
        /\ IF keyPair[p] = Null
              THEN Throw(p, c, "Key pair not generated")
           ELSE IF ~keyPair[p].privateKey.extractable
              THEN Throw(p, c, "Private key is not extractable")
           ELSE /\ InFlight(p) < MaxPending
                /\ Await(p, [c EXCEPT !.held = marshalKey(keyPair[p].publicKey),
                                      !.trace = <<"exportKey">>])
        /\ UNCHANGED <<params, keyPair, sharedSecrets, nextKey>>

exportPublicKey(p) ==
    LET c == Call("exportPublicKey", "exported", Omitted, NoInput, Null, p, <<>>)
    IN  /\ Constructed(p)
        /\ IF keyPair[p] = Null
              THEN Throw(p, c, "Key pair not generated")
              ELSE /\ InFlight(p) < MaxPending
                   /\ Await(p, [c EXCEPT !.held = marshalKey(keyPair[p].publicKey),
                                         !.trace = <<"exportKey">>])
        /\ UNCHANGED <<params, keyPair, sharedSecrets, nextKey>>

\* exportPrivateKey without its extractability check.
exportPrivateKeyUnguarded(p) ==
    LET c == Call("exportPrivateKey", "exported", Omitted,
                  [extractable |-> keyPair[p] # Null /\ keyPair[p].privateKey.extractable],
                  Null, p, <<>>)
    IN  /\ Constructed(p)
        /\ IF keyPair[p] = Null
              THEN Throw(p, c, "Key pair not generated")
              ELSE /\ InFlight(p) < MaxPending
                   /\ Await(p, [c EXCEPT !.held = marshalKey(keyPair[p].privateKey),
                                         !.trace = <<"exportKey">>])
        /\ UNCHANGED <<params, keyPair, sharedSecrets, nextKey>>

exportPrivateKey(p) ==
    LET c == Call("exportPrivateKey", "exported", Omitted,
                  [extractable |-> keyPair[p] # Null /\ keyPair[p].privateKey.extractable],
                  Null, p, <<>>)
    IN  /\ Constructed(p)
        /\ IF keyPair[p] = Null
              THEN Throw(p, c, "Key pair not generated")
           ELSE IF ~keyPair[p].privateKey.extractable
              THEN Throw(p, c, "Private key is not extractable")
           ELSE /\ InFlight(p) < MaxPending
                /\ Await(p, [c EXCEPT !.held = marshalKey(keyPair[p].privateKey),
                                      !.trace = <<"exportKey">>])
        /\ UNCHANGED <<params, keyPair, sharedSecrets, nextKey>>

\* The continuation of either export: the text is returned.
exportResume(p) ==
    \E c \in BagToSet(pending[p]) :
        /\ c.call \in {"exportPublicKey", "exportPrivateKey"}
        /\ Settle(p, c, c.held)
        /\ UNCHANGED <<params, keyPair, sharedSecrets, nextKey>>

\* ------------------------------------------------------- key unmarshalling
\* #unmarshalPublicKey up to its await: JSON.parse, then importKey with no
\* usages.
unmarshalPublicKey(marshalled, namedCurve) ==
    LET unmarshalled == JsonParse(marshalled)
    IN  IF ~unmarshalled.ok THEN unmarshalled
        ELSE ProviderImportKey(unmarshalled.value, namedCurve, TRUE, {})

\* #unmarshalPrivateKey that asks importKey for a key that is not extractable.
unmarshalPrivateKeyNotExtractable(marshalled, namedCurve) ==
    LET unmarshalled == JsonParse(marshalled)
    IN  IF ~unmarshalled.ok THEN unmarshalled
        ELSE IF unmarshalled.value.kind # "jwk" THEN Err("TypeError")
        ELSE ProviderImportKey(unmarshalled.value, namedCurve, FALSE,
                               unmarshalled.value.key_ops)

\* #unmarshalPrivateKey: the usages are the key_ops of the parsed text;
\* a text without key_ops passes undefined, which importKey rejects.
unmarshalPrivateKey(marshalled, namedCurve) ==
    LET unmarshalled == JsonParse(marshalled)
    IN  IF ~unmarshalled.ok THEN unmarshalled
        ELSE IF unmarshalled.value.kind # "jwk" THEN Err("TypeError")
        ELSE ProviderImportKey(unmarshalled.value, namedCurve, TRUE,
                               unmarshalled.value.key_ops)

\* ------------------------------------------------------------ importKeyPair
importKeyPair(p, privateKey, publicKey) ==
    LET c == Call("importKeyPair", "privateImported", Omitted,
                  [privateKey |-> privateKey, publicKey |-> publicKey],
                  unmarshalPrivateKey(privateKey, params[p].namedCurve), p, <<>>)
    IN  /\ Constructed(p)
        /\ IF keyPair[p] # Null
              THEN Throw(p, [c EXCEPT !.held = Null], "Key pair already exists")
           ELSE IF privateKey.kind # "json"
              THEN Throw(p, c, "SyntaxError")
           ELSE /\ InFlight(p) < MaxPending
                /\ Await(p, [c EXCEPT !.trace = <<"importKey">>])
        /\ UNCHANGED <<params, keyPair, sharedSecrets, nextKey>>

\* importKeyPair that stores the private key as soon as it is imported.
importKeyPairResume1Partial(p) ==
    \E c \in BagToSet(pending[p]) :
        /\ c.call = "importKeyPair" /\ c.pc = "privateImported"
        /\ LET public == unmarshalPublicKey(c.input.publicKey, params[p].namedCurve)
           IN  IF ~c.held.ok THEN Settle(p, c, c.held)
               ELSE IF c.input.publicKey.kind # "json" THEN Settle(p, c, public)
               ELSE /\ Resume(p, c, [c EXCEPT !.pc = "publicImported",
                                        !.held = IF public.ok
                                                 THEN Ok(KeyPairOf(c.held.value, public.value))
                                                 ELSE public,
                                        !.trace = Append(@, "importKey")])
        /\ keyPair' = IF c.held.ok
                      THEN [keyPair EXCEPT ![p] = KeyPairOf(c.held.value, Null)]
                      ELSE keyPair
        /\ UNCHANGED <<params, sharedSecrets, nextKey>>

\* After `await this.#unmarshalPrivateKey(privateKey)`: the public key text
\* is parsed and handed to importKey.
importKeyPairResume1(p) ==
    \E c \in BagToSet(pending[p]) :
        /\ c.call = "importKeyPair" /\ c.pc = "privateImported"
        /\ LET public == unmarshalPublicKey(c.input.publicKey, params[p].namedCurve)
           IN  IF ~c.held.ok THEN Settle(p, c, c.held)
               ELSE IF c.input.publicKey.kind # "json" THEN Settle(p, c, public)
               ELSE /\ Resume(p, c, [c EXCEPT !.pc = "publicImported",
                                        !.held = IF public.ok
                                                 THEN Ok(KeyPairOf(c.held.value, public.value))
                                                 ELSE public,
                                        !.trace = Append(@, "importKey")])
        /\ UNCHANGED <<params, keyPair, sharedSecrets, nextKey>>

\* importKeyPair that stores the two imported keys in each other's place.
importKeyPairResume2Swapped(p) ==
    \E c \in BagToSet(pending[p]) :
        /\ c.call = "importKeyPair" /\ c.pc = "publicImported"
        /\ Settle(p, c, IF c.held.ok THEN Ok(Null) ELSE c.held)
        /\ keyPair' = IF c.held.ok
                      THEN [keyPair EXCEPT ![p] = KeyPairOf(c.held.value.publicKey,
                                                            c.held.value.privateKey)]
                      ELSE keyPair
        /\ UNCHANGED <<params, sharedSecrets, nextKey>>

\* After `await this.#unmarshalPublicKey(publicKey)`: the assignment.
importKeyPairResume2(p) ==
    \E c \in BagToSet(pending[p]) :
        /\ c.call = "importKeyPair" /\ c.pc = "publicImported"
        /\ Settle(p, c, IF c.held.ok THEN Ok(Null) ELSE c.held)
        /\ keyPair' = IF c.held.ok THEN [keyPair EXCEPT ![p] = c.held.value] ELSE keyPair
        /\ UNCHANGED <<params, sharedSecrets, nextKey>>

\* ------------------------------------------------------- setRemotePublicKey
setRemotePublicKey(p, remotePublicKey, identifier) ==
    LET c == Call("setRemotePublicKey", "imported", identifier,
                  [text |-> remotePublicKey],
                  unmarshalPublicKey(remotePublicKey, params[p].namedCurve), p, <<>>)
    IN  /\ Constructed(p)
        /\ IF remotePublicKey.kind # "json"
              THEN Throw(p, c, "SyntaxError")
              ELSE /\ InFlight(p) < MaxPending
                   /\ Await(p, [c EXCEPT !.trace = <<"importKey">>])
        /\ UNCHANGED <<params, keyPair, sharedSecrets, nextKey>>

\* After `await this.#unmarshalPublicKey(remotePublicKey)`: the arguments of
\* deriveKey are evaluated, this.#keyPair!.privateKey among them, which
\* throws a TypeError when there is no key pair at this moment.
setRemotePublicKeyResume1(p) ==
    \E c \in BagToSet(pending[p]) :
        /\ c.call = "setRemotePublicKey" /\ c.pc = "imported"
        /\ IF ~c.held.ok THEN Settle(p, c, c.held)
           ELSE IF keyPair[p] = Null THEN Settle(p, c, Err("TypeError"))
           ELSE /\ Resume(p, c, [c EXCEPT !.pc = "derived",
                                    !.held = ProviderDeriveKey(c.held.value,
                                                 keyPair[p].privateKey,
                                                 params[p].keyLength),
                                    !.trace = Append(@, "deriveKey")])
        /\ UNCHANGED <<params, keyPair, sharedSecrets, nextKey>>

\* A store replaced by one that holds the new entry only.
setRemotePublicKeyResume2Replacing(p) ==
    \E c \in BagToSet(pending[p]) :
        /\ c.call = "setRemotePublicKey" /\ c.pc = "derived"
        /\ Settle(p, c, IF c.held.ok THEN Ok(Null) ELSE c.held)
        /\ sharedSecrets' = IF c.held.ok
                            THEN [sharedSecrets EXCEPT
                                    ![p] = [EmptyStore EXCEPT ![c.id] = c.held.value]]
                            ELSE sharedSecrets
        /\ UNCHANGED <<params, keyPair, nextKey>>

\* A setRemotePublicKey that keeps the entry the identifier already has.
setRemotePublicKeyResume2KeepingFirst(p) ==
    \E c \in BagToSet(pending[p]) :
        /\ c.call = "setRemotePublicKey" /\ c.pc = "derived"
        /\ Settle(p, c, IF c.held.ok THEN Ok(Null) ELSE c.held)
        /\ sharedSecrets' = IF c.held.ok /\ sharedSecrets[p][c.id] = Null
                            THEN [sharedSecrets EXCEPT ![p][c.id] = c.held.value]
                            ELSE sharedSecrets
        /\ UNCHANGED <<params, keyPair, nextKey>>

\* After `await subtle.deriveKey(...)`: the entry is written.
setRemotePublicKeyResume2(p) ==
    \E c \in BagToSet(pending[p]) :
        /\ c.call = "setRemotePublicKey" /\ c.pc = "derived"
        /\ Settle(p, c, IF c.held.ok THEN Ok(Null) ELSE c.held)
        /\ sharedSecrets' = IF c.held.ok
                            THEN [sharedSecrets EXCEPT ![p][c.id] = c.held.value]
                            ELSE sharedSecrets
        /\ UNCHANGED <<params, keyPair, nextKey>>

\* ---------------------------------------------------------- message cipher
\* An envelope that carries a counter of zeros, not the one that was used.
marshalCiphertextZeroCounter(buffer, counter) ==
    JsonText([kind |-> "envelope", buffer |-> JsonQuote(FromCharCodes(buffer)),
              counter |-> JsonQuote(FromCharCodes([i \in 1..Len(counter) |-> 0]))])

\* An envelope whose two members are written without escaping.
marshalCiphertextUnescaped(buffer, counter) ==
    JsonText([kind |-> "envelope", buffer |-> FromCharCodes(buffer),
              counter |-> FromCharCodes(counter)])

\* #marshalCiphertext: JSON.stringify of the two byte arrays as strings; the
\* text holds each member as the characters written between its quotes.
marshalCiphertext(buffer, counter) ==
    JsonText([kind |-> "envelope", buffer |-> JsonQuote(FromCharCodes(buffer)),
              counter |-> JsonQuote(FromCharCodes(counter))])

\* #unmarshalCiphertext: JSON.parse, then the code units of both strings;
\* spreading a missing member throws a TypeError.
unmarshalCiphertext(marshalled) ==
    LET unmarshalled == JsonParse(marshalled)
    IN  IF ~unmarshalled.ok THEN unmarshalled
        ELSE IF unmarshalled.value.kind # "envelope" THEN Err("TypeError")
        ELSE LET buffer == JsonUnquote(unmarshalled.value.buffer)
                 counter == JsonUnquote(unmarshalled.value.counter)
             IN  IF ~buffer.ok THEN buffer
                 ELSE IF ~counter.ok THEN counter
                 ELSE Ok([buffer |-> CharCodesFrom(buffer.value, 1),
                          counter |-> CharCodesFrom(counter.value, 1)])

\* An encrypt that hands the provider a counter of zeros it keeps, and puts
\* the counter it drew into the envelope.
encryptKeptCounter(p, plaintext, identifier, counter) ==
    LET secret == Lookup(sharedSecrets[p], Resolve(identifier))
        c == Call("encrypt", "encrypted", identifier,
                  [plaintext |-> plaintext, counter |-> counter], Null, p, <<>>)
    IN  /\ Constructed(p)
        /\ IF secret = Null
              THEN Throw(p, c, "Shared secret not set")
              ELSE /\ InFlight(p) < MaxPending
                   /\ Await(p, [c EXCEPT
                          !.held = ProviderEncrypt(secret, [i \in 1..16 |-> 0],
                                       params[p].counterLength,
                                       stringToUint8Array(plaintext)),
                          !.trace = <<"getRandomValues", "encrypt">>])
        /\ UNCHANGED <<params, keyPair, sharedSecrets, nextKey>>

\* encrypt; `counter` is what getRandomValues(new Uint8Array(16)) returns.
encrypt(p, plaintext, identifier, counter) ==
    LET secret == Lookup(sharedSecrets[p], Resolve(identifier))
        c == Call("encrypt", "encrypted", identifier,
                  [plaintext |-> plaintext, counter |-> counter], Null, p, <<>>)
    IN  /\ Constructed(p)
        /\ IF secret = Null
              THEN Throw(p, c, "Shared secret not set")
              ELSE /\ InFlight(p) < MaxPending
                   /\ Await(p, [c EXCEPT
                          !.held = ProviderEncrypt(secret, counter,
                                       params[p].counterLength,
                                       stringToUint8Array(plaintext)),
                          !.trace = <<"getRandomValues", "encrypt">>])
        /\ UNCHANGED <<params, keyPair, sharedSecrets, nextKey>>

\* An encrypt that removes the secret it used once the envelope is made.
encryptResumeForgetting(p) ==
    \E c \in BagToSet(pending[p]) :
        /\ c.call = "encrypt"
        /\ Settle(p, c, IF c.held.ok
                        THEN Ok(marshalCiphertext(c.held.value, c.input.counter))
                        ELSE c.held)
        /\ sharedSecrets' = [sharedSecrets EXCEPT ![p][c.id] = Null]
        /\ UNCHANGED <<params, keyPair, nextKey>>

\* An encrypt that reads the secret after the provider has answered, from
\* the store as it is then.
encryptResumeLateKey(p) ==
    \E c \in BagToSet(pending[p]) :
        /\ c.call = "encrypt"
        /\ Settle(p, c, IF c.held.ok
                        THEN Ok(marshalCiphertext(
                                 ProviderEncrypt(Lookup(sharedSecrets[p], c.id),
                                     c.input.counter, params[p].counterLength,
                                     stringToUint8Array(c.input.plaintext)).value,
                                 c.input.counter))
                        ELSE c.held)
        /\ UNCHANGED <<params, keyPair, sharedSecrets, nextKey>>

\* After `await subtle.encrypt(...)`: the envelope is returned.
encryptResume(p) ==
    \E c \in BagToSet(pending[p]) :
        /\ c.call = "encrypt"
        /\ Settle(p, c, IF c.held.ok
                        THEN Ok(marshalCiphertext(c.held.value, c.input.counter))
                        ELSE c.held)
        /\ UNCHANGED <<params, keyPair, sharedSecrets, nextKey>>

\* decrypt of the text of `message`.
decrypt(p, message, identifier) ==
    LET secret == Lookup(sharedSecrets[p], Resolve(identifier))
        parsed == unmarshalCiphertext(message.text)
        c == Call("decrypt", "decrypted", identifier, message, Null, p, <<>>)
    IN  /\ Constructed(p)
        /\ IF secret = Null THEN Throw(p, c, "Shared secret not set")
           ELSE IF ~parsed.ok THEN Throw(p, c, parsed.error)
           ELSE /\ InFlight(p) < MaxPending
                /\ Await(p, [c EXCEPT
                       !.held = ProviderDecrypt(secret, parsed.value.counter,
                                    params[p].counterLength, parsed.value.buffer),
                       !.trace = <<"decrypt">>])
        /\ UNCHANGED <<params, keyPair, sharedSecrets, nextKey>>

\* A decrypt that returns the empty text when the provider fails.
decryptResumeSwallowing(p) ==
    \E c \in BagToSet(pending[p]) :
        /\ c.call = "decrypt"
        /\ Settle(p, c, IF c.held.ok THEN Ok(uint8ArrayToString(c.held.value))
                                     ELSE Ok(<<>>))
        /\ UNCHANGED <<params, keyPair, sharedSecrets, nextKey>>

\* A decrypt that advances the stored secret once it has used it.
decryptResumeRatcheting(p) ==
    \E c \in BagToSet(pending[p]) :
        /\ c.call = "decrypt"
        /\ Settle(p, c, IF c.held.ok THEN Ok(uint8ArrayToString(c.held.value))
                                     ELSE c.held)
        /\ sharedSecrets' = [sharedSecrets EXCEPT
                                ![p][c.id] = [@ EXCEPT !.bits = (@ + 1) % 23]]
        /\ UNCHANGED <<params, keyPair, nextKey>>

\* After `await subtle.decrypt(...)`: the bytes are decoded as UTF-8.
decryptResume(p) ==
    \E c \in BagToSet(pending[p]) :
        /\ c.call = "decrypt"
        /\ Settle(p, c, IF c.held.ok THEN Ok(uint8ArrayToString(c.held.value))
                                     ELSE c.held)
        /\ UNCHANGED <<params, keyPair, sharedSecrets, nextKey>>

\* ------------------------------------------------------------ marshalling
\* marshal that refuses an identity without a key pair, as the exports do.
marshalNeedsKeyPair(p) ==
    /\ Constructed(p)
    /\ last' = Outcome(p, Call("marshal", "done", Omitted, NoInput, Null, p, <<>>),
                       IF keyPair[p] = Null THEN Err("Key pair not generated")
                       ELSE Ok([kind |-> "marshalled", keyPair |-> keyPair[p],
                                params |-> params[p]]))
    /\ UNCHANGED <<params, keyPair, sharedSecrets, pending, nextKey, streams>>

marshal(p) ==
    /\ Constructed(p)
    /\ last' = Outcome(p, Call("marshal", "done", Omitted, NoInput, Null, p, <<>>),
                       Ok([kind |-> "marshalled", keyPair |-> keyPair[p],
                           params |-> params[p]]))
    /\ UNCHANGED <<params, keyPair, sharedSecrets, pending, nextKey, streams>>

\* The caller assigns to a member of the params object marshal has just
\* returned on p: marshal returns #params itself, not a copy.
assignMarshalledParam(p, field, value) ==
    /\ last # Null /\ last.call = "marshal" /\ last.party = p
    /\ params' = [params EXCEPT ![p][field] = value]
    /\ last' = Null
    /\ UNCHANGED <<keyPair, sharedSecrets, pending, nextKey, streams>>

\* unmarshal that builds the identity without the marshalled parameters.
unmarshalDefaultParams(marshalled) ==
    [params |-> DefaultParams, keyPair |-> marshalled.keyPair,
     sharedSecrets |-> EmptyStore]

\* static unmarshal: new E2EE({params, deps}), then #restoreKeyPairObject
\* stores the handle as it is; the new identity has no secrets.
unmarshal(marshalled) ==
    [params |-> Constructor(marshalled.params), keyPair |-> marshalled.keyPair,
     sharedSecrets |-> EmptyStore]

\* ---------------------------------------------------------------- streams
\* A transform stage an identity returned for a peer: the chunk its
\* transform works on (Null: none), how many chunks it took from its
\* writable side, and the failed result that ended it (Null: none).
Stage(p, identifier) ==
    [party |-> p, arg |-> identifier, id |-> Resolve(identifier),
     busy |-> Null, taken |-> 0, error |-> Null]

StreamCall(op, p, identifier) == Call(op, "done", identifier, NoInput, Null, p, <<>>)

\* A stream call that returns a stage whether a secret exists or not.
returnStageUnchecked(op, p, identifier) ==
    /\ Constructed(p)
    /\ streams[op] = Null
    /\ streams' = [streams EXCEPT ![op] = Stage(p, identifier)]
    /\ last' = Outcome(p, StreamCall(op \o "Stream", p, identifier),
                       Ok([kind |-> "stream"]))
    /\ UNCHANGED <<params, keyPair, sharedSecrets, pending, nextKey>>

\* encryptStream / decryptStream: the call itself throws when no secret
\* exists for the peer; otherwise it returns a stage that has taken no chunk.
returnStage(op, p, identifier) ==
    /\ Constructed(p)
    /\ IF sharedSecrets[p][Resolve(identifier)] = Null
          THEN /\ last' = Outcome(p, StreamCall(op \o "Stream", p, identifier),
                                  Err("Shared secret not set"))
               /\ UNCHANGED streams
          ELSE /\ streams[op] = Null
               /\ streams' = [streams EXCEPT ![op] = Stage(p, identifier)]
               /\ last' = Outcome(p, StreamCall(op \o "Stream", p, identifier),
                                  Ok([kind |-> "stream"]))
    /\ UNCHANGED <<params, keyPair, sharedSecrets, pending, nextKey>>

encryptStream(p, identifier) == returnStage("encrypt", p, identifier)
decryptStream(p, identifier) == returnStage("decrypt", p, identifier)

\* The upstream hands a binary chunk to the encrypt stage.
write(chunk) ==
    /\ streams.encrypt # Null
    /\ streams' = [streams EXCEPT !.written = Append(@, chunk)]
    /\ last' = Null
    /\ UNCHANGED <<params, keyPair, sharedSecrets, pending, nextKey>>

\* The stage `op` is idle and its writable side `queue` holds a chunk it has
\* not taken.
CanTake(op, queue) ==
    /\ streams[op] # Null
    /\ streams[op].busy = Null /\ streams[op].error = Null
    /\ streams[op].taken < Len(queue)

\* The transform of the encrypt stage on the next chunk: a random counter,
\* then the provider's encryption of the chunk under the peer's secret.
encryptTransform(counter) ==
    LET stage == streams.encrypt
        chunk == streams.written[stage.taken + 1]
        secret == sharedSecrets[stage.party][stage.id]
    IN  /\ CanTake("encrypt", streams.written)
        /\ streams' = [streams EXCEPT !.encrypt =
                [stage EXCEPT !.taken = @ + 1,
                    !.busy = [counter |-> counter,
                              held |-> ProviderEncrypt(secret, counter,
                                           params[stage.party].counterLength,
                                           chunk)]]]
        /\ last' = Null
        /\ UNCHANGED <<params, keyPair, sharedSecrets, pending, nextKey>>

\* The encrypt stage puts the envelope it finished before those it emitted.
encryptTransformResumeReordered ==
    LET stage == streams.encrypt
    IN  /\ stage # Null /\ stage.busy # Null
        /\ streams' = IF stage.busy.held.ok
              THEN [streams EXCEPT !.encrypt = [stage EXCEPT !.busy = Null],
                        !.wire = <<marshalCiphertext(stage.busy.held.value,
                                                     stage.busy.counter)>> \o @]
              ELSE [streams EXCEPT !.encrypt =
                        [stage EXCEPT !.busy = Null, !.error = stage.busy.held]]
        /\ last' = Null
        /\ UNCHANGED <<params, keyPair, sharedSecrets, pending, nextKey>>

\* After the provider answered: the encrypt stage emits the envelope of the
\* chunk, after those it emitted before; a failure ends the stage.
encryptTransformResume ==
    LET stage == streams.encrypt
    IN  /\ stage # Null /\ stage.busy # Null
        /\ streams' = IF stage.busy.held.ok
              THEN [streams EXCEPT !.encrypt = [stage EXCEPT !.busy = Null],
                        !.wire = Append(@, marshalCiphertext(stage.busy.held.value,
                                                             stage.busy.counter))]
              ELSE [streams EXCEPT !.encrypt =
                        [stage EXCEPT !.busy = Null, !.error = stage.busy.held]]
        /\ last' = Null
        /\ UNCHANGED <<params, keyPair, sharedSecrets, pending, nextKey>>

\* The transform of the decrypt stage on the next envelope: it is parsed,
\* then decrypted by the provider under the peer's secret; an envelope that
\* does not parse ends the stage.
decryptTransform ==
    LET stage == streams.decrypt
        parsed == unmarshalCiphertext(streams.wire[stage.taken + 1])
        secret == sharedSecrets[stage.party][stage.id]
    IN  /\ CanTake("decrypt", streams.wire)
        /\ streams' = [streams EXCEPT !.decrypt =
                IF ~parsed.ok
                    THEN [stage EXCEPT !.taken = @ + 1, !.error = parsed]
                    ELSE [stage EXCEPT !.taken = @ + 1,
                            !.busy = [held |-> ProviderDecrypt(secret,
                                           parsed.value.counter,
                                           params[stage.party].counterLength,
                                           parsed.value.buffer)]]]
        /\ last' = Null
        /\ UNCHANGED <<params, keyPair, sharedSecrets, pending, nextKey>>

\* A decrypt stage that goes on to the next envelope when the provider fails.
decryptTransformResumeSkipping ==
    LET stage == streams.decrypt
    IN  /\ stage # Null /\ stage.busy # Null
        /\ streams' = IF stage.busy.held.ok
              THEN [streams EXCEPT !.decrypt = [stage EXCEPT !.busy = Null],
                        !.read = Append(@, stage.busy.held.value)]
              ELSE [streams EXCEPT !.decrypt = [stage EXCEPT !.busy = Null]]
        /\ last' = Null
        /\ UNCHANGED <<params, keyPair, sharedSecrets, pending, nextKey>>

\* After the provider answered: the decrypt stage emits the recovered binary
\* chunk, after those it emitted before; a failure ends the stage.
decryptTransformResume ==
    LET stage == streams.decrypt
    IN  /\ stage # Null /\ stage.busy # Null
        /\ streams' = IF stage.busy.held.ok
              THEN [streams EXCEPT !.decrypt = [stage EXCEPT !.busy = Null],
                        !.read = Append(@, stage.busy.held.value)]
              ELSE [streams EXCEPT !.decrypt =
                        [stage EXCEPT !.busy = Null, !.error = stage.busy.held]]
        /\ last' = Null
        /\ UNCHANGED <<params, keyPair, sharedSecrets, pending, nextKey>>

\* What reaches the decrypt stage next is a text its upstream did not get
\* from the encrypt stage.
corrupt(text) ==
    /\ streams.decrypt # Null
    /\ streams' = [streams EXCEPT !.wire = Append(@, text)]
    /\ last' = Null
    /\ UNCHANGED <<params, keyPair, sharedSecrets, pending, nextKey>>

\* ------------------------------------------------------- inputs of the calls
\* Plaintexts: the letter A and the byte order mark U+FEFF.
MessageUnits == {65, 65279}
Messages == UNION {[1..n -> MessageUnits] : n \in 0..MaxMsgLen}

\* A value of getRandomValues(new Uint8Array(16)).
Counters == {[i \in 1..16 |-> 255]}

ParamChoices == {[namedCurve |-> "P-256"], [counterLength |-> 128, keyLength |-> 128]}

\* Key pairs generated elsewhere: one extractable whose owner sends its keys,
\* one not extractable held as a handle.
PeerKeyPair == ProviderGenerateKey("P-256", TRUE, {"deriveKey"}, 10).value
StoredKeyPair == ProviderGenerateKey("P-256", FALSE, {"deriveKey"}, 11).value
PeerPublicText == marshalKey(PeerKeyPair.publicKey).value
PeerPrivateText == marshalKey(PeerKeyPair.privateKey).value

\* The text exportPublicKey returns on q.
PublicText(q) == marshalKey(keyPair[q].publicKey).value

\* The envelope the call settled by the latest step returned, with what the
\* sender encrypted, or Null.
Sent ==
    IF last # Null /\ last.call = "encrypt" /\ last.ok
        THEN [text |-> last.value, plaintext |-> last.input.plaintext,
              sender |-> last.party, arg |-> last.arg]
        ELSE Null

\* A text no envelope and no key was ever serialized to.
Junk == [text |-> RawText]

\* ----------------------------------------------------------- specification
\* One identity, A, whose caller does not wait for a call to settle before
\* issuing the next.  A is built by the constructor or restored by unmarshal
\* from a marshalled value with or without a key pair handle.
Origins ==
    {[params |-> Constructor([namedCurve |-> "P-256"]), keyPair |-> Null,
      sharedSecrets |-> EmptyStore],
     unmarshal([kind |-> "marshalled", keyPair |-> StoredKeyPair,
                params |-> DefaultParams])}

Init ==
    /\ \E origin \in Origins :
        /\ params = [p \in Parties |-> IF p = "A" THEN origin.params ELSE Null]
        /\ keyPair = [p \in Parties |-> IF p = "A" THEN origin.keyPair ELSE Null]
        /\ sharedSecrets = [p \in Parties |-> origin.sharedSecrets]
    /\ pending = [p \in Parties |-> EmptyBag]
    /\ last = Null
    /\ nextKey = [p \in Parties |-> 0]
    /\ streams = NoStreams

GenerateKeyPair ==
    \E given \in {[extractable |-> FALSE, usages |-> {}],
                    [extractable |-> TRUE, usages |-> {}],
                    [extractable |-> FALSE, usages |-> {"encrypt"}]} :
        generateKeyPair("A", given.extractable, given.usages)
GenerateKeyPairResume == generateKeyPairResume("A")
ExportPublicKey == exportPublicKey("A")
ExportPrivateKey == exportPrivateKey("A")
ExportResume == exportResume("A")
ImportKeyPair ==
    \E privateKey \in {PeerPrivateText, RawText}, publicKey \in {PeerPublicText, RawText} :
        importKeyPair("A", privateKey, publicKey)
ImportKeyPairResume1 == importKeyPairResume1("A")
ImportKeyPairResume2 == importKeyPairResume2("A")
SetRemotePublicKey ==
    \E text \in {PeerPublicText, RawText}, identifier \in {Omitted, Str("unicast")} :
        setRemotePublicKey("A", text, identifier)
SetRemotePublicKeyResume1 == setRemotePublicKeyResume1("A")
SetRemotePublicKeyResume2 == setRemotePublicKeyResume2("A")
Encrypt ==
    \E identifier \in {Omitted, Str("unicast"), Str("constructor")}, counter \in Counters :
        encrypt("A", <<65>>, identifier, counter)
EncryptResume == encryptResume("A")
Decrypt ==
    \E message \in {Junk} \cup (IF Sent # Null THEN {Sent} ELSE {}),
       identifier \in {Omitted, Str("constructor")} :
        decrypt("A", message, identifier)
DecryptResume == decryptResume("A")
Marshal == marshal("A")

Next ==
    \/ GenerateKeyPair \/ GenerateKeyPairResume
    \/ ExportPublicKey \/ ExportPrivateKey \/ ExportResume
    \/ ImportKeyPair \/ ImportKeyPairResume1 \/ ImportKeyPairResume2
    \/ SetRemotePublicKey \/ SetRemotePublicKeyResume1 \/ SetRemotePublicKeyResume2
    \/ Encrypt \/ EncryptResume \/ Decrypt \/ DecryptResume
    \/ Marshal

Spec == Init /\ [][Next]_vars

\* ------------------------------------------ specification of an exchange
\* Three identities built with the same parameters, whose callers await each
\* call before the next is issued.  Each generates its key pair, hands the
\* text exportPublicKey returns to the others, who store it under its owner's
\* name; an envelope one returns is handed to another for decryption.
AllIdle == \A p \in Parties : pending[p] = EmptyBag

InitComm ==
    /\ \E given \in ParamChoices : params = [p \in Parties |-> Constructor(given)]
    /\ keyPair = [p \in Parties |-> Null]
    /\ sharedSecrets = [p \in Parties |-> EmptyStore]
    /\ pending = [p \in Parties |-> EmptyBag]
    /\ last = Null
    /\ nextKey = [p \in Parties |-> 0]
    /\ streams = NoStreams

CommGenerateKeyPair ==
    AllIdle /\ \E p \in Parties : keyPair[p] = Null /\ generateKeyPair(p, FALSE, {})
CommGenerateKeyPairResume == \E p \in Parties : generateKeyPairResume(p)
CommSetRemotePublicKey ==
    AllIdle /\ \E p \in Parties, q \in Parties :
        /\ p # q /\ keyPair[p] # Null /\ keyPair[q] # Null
        /\ setRemotePublicKey(p, PublicText(q), Str(q))
CommSetRemotePublicKeyResume1 == \E p \in Parties : setRemotePublicKeyResume1(p)
CommSetRemotePublicKeyResume2 == \E p \in Parties : setRemotePublicKeyResume2(p)
CommEncrypt ==
    AllIdle /\ \E p \in Parties, q \in Parties, plaintext \in Messages,
                  counter \in Counters :
        /\ p # q /\ sharedSecrets[p][Str(q)] # Null
        /\ encrypt(p, plaintext, Str(q), counter)
CommEncryptResume == \E p \in Parties : encryptResume(p)
CommDecrypt ==
    AllIdle /\ Sent # Null /\ \E p \in Parties :
        /\ p # Sent.sender /\ sharedSecrets[p][Str(Sent.sender)] # Null
        /\ decrypt(p, Sent, Str(Sent.sender))
CommDecryptResume == \E p \in Parties : decryptResume(p)

NextComm ==
    \/ CommGenerateKeyPair \/ CommGenerateKeyPairResume
    \/ CommSetRemotePublicKey
    \/ CommSetRemotePublicKeyResume1 \/ CommSetRemotePublicKeyResume2
    \/ CommEncrypt \/ CommEncryptResume \/ CommDecrypt \/ CommDecryptResume

SpecComm == InitComm /\ [][NextComm]_vars

\* ------------------------------------- specifications of persistence and transfer
\* Callers that await each call, with inputs that make the calls fail as
\* well as succeed.
KeyGenChoices ==
    {[extractable |-> FALSE, usages |-> {}],
     [extractable |-> TRUE, usages |-> {}],
     [extractable |-> FALSE, usages |-> {"encrypt"}]}

\* Plaintexts of one code unit.
ShortMessages == {m \in Messages : Len(m) = 1}

\* The text exportPrivateKey returns on q when the private key is extractable.
PrivateText(q) == marshalKey(keyPair[q].privateKey).value

\* The private key of q as a key text whose key_ops allow deriveBits only.
DeriveBitsOnlyText(q) ==
    JsonText([Jwk(keyPair[q].privateKey) EXCEPT !.key_ops = {"deriveBits"}])

SeqGenerateKeyPair ==
    AllIdle /\ \E p \in Parties, given \in KeyGenChoices :
        /\ Constructed(p) /\ keyPair[p] = Null
        /\ generateKeyPair(p, given.extractable, given.usages)
SeqGenerateKeyPairResume == \E p \in Parties : generateKeyPairResume(p)
SeqExportPublicKey == AllIdle /\ \E p \in Parties : exportPublicKey(p)
SeqExportPrivateKey == AllIdle /\ \E p \in Parties : exportPrivateKey(p)
SeqExportResume == \E p \in Parties : exportResume(p)
\* B is given the key texts of A, or texts that are not A's.
SeqImportKeyPair ==
    /\ AllIdle /\ Constructed("B") /\ keyPair["B"] = Null /\ keyPair["A"] # Null
    /\ \E privateKey \in {DeriveBitsOnlyText("A"), RawText}
                         \cup (IF keyPair["A"].privateKey.extractable
                                  THEN {PrivateText("A")} ELSE {}),
          publicKey \in {PublicText("A"), RawText} :
            importKeyPair("B", privateKey, publicKey)
SeqImportKeyPairResume1 == \E p \in Parties : importKeyPairResume1(p)
SeqImportKeyPairResume2 == \E p \in Parties : importKeyPairResume2(p)
\* Who stores whose public key: A and B that of the peer C, and C that of A.
PeerPairs == {<<"A", "C">>, <<"B", "C">>, <<"C", "A">>}

\* p stores, under the name of q, the public key q exported or a text that
\* is no key.
SeqSetRemotePublicKey ==
    AllIdle /\ \E pair \in PeerPairs :
        LET p == pair[1]
            q == pair[2]
        IN  /\ Constructed(p) /\ keyPair[q] # Null
            /\ \E text \in {PublicText(q), RawText} :
                    setRemotePublicKey(p, text, Str(q))
SeqSetRemotePublicKeyResume1 == \E p \in Parties : setRemotePublicKeyResume1(p)
SeqSetRemotePublicKeyResume2 == \E p \in Parties : setRemotePublicKeyResume2(p)
SeqEncrypt ==
    AllIdle /\ \E p \in {"B", "C"}, plaintext \in ShortMessages, counter \in Counters :
        \E identifier \in {Str(q) : q \in Parties \ {p}} \cup {Str("constructor")} :
            encrypt(p, plaintext, identifier, counter)
SeqEncryptResume == \E p \in Parties : encryptResume(p)
SeqDecrypt ==
    AllIdle /\ Sent # Null /\ \E p \in Parties :
        /\ p # Sent.sender /\ Constructed(p)
        /\ decrypt(p, Sent, Str(Sent.sender))
SeqDecryptResume == \E p \in Parties : decryptResume(p)
SeqMarshal == AllIdle /\ marshal("A")

NextSeq ==
    \/ SeqGenerateKeyPair \/ SeqGenerateKeyPairResume
    \/ SeqExportPublicKey \/ SeqExportPrivateKey \/ SeqExportResume
    \/ SeqImportKeyPair \/ SeqImportKeyPairResume1 \/ SeqImportKeyPairResume2
    \/ SeqSetRemotePublicKey
    \/ SeqSetRemotePublicKeyResume1 \/ SeqSetRemotePublicKeyResume2
    \/ SeqEncrypt \/ SeqEncryptResume \/ SeqDecrypt \/ SeqDecryptResume
    \/ SeqMarshal

\* Persistence: A and the peer C are constructed with the same parameters;
\* B does not exist until E2EE.unmarshal builds it from the value marshal
\* returned on A.
InitPersist ==
    /\ \E given \in ParamChoices :
            params = [p \in Parties |-> IF p = "B" THEN Null ELSE Constructor(given)]
    /\ keyPair = [p \in Parties |-> Null]
    /\ sharedSecrets = [p \in Parties |-> EmptyStore]
    /\ pending = [p \in Parties |-> EmptyBag]
    /\ last = Null
    /\ nextKey = [p \in Parties |-> 0]
    /\ streams = NoStreams

PersistUnmarshal ==
    /\ last # Null /\ last.call = "marshal" /\ ~Constructed("B")
    /\ LET restored == unmarshal(last.value)
       IN  /\ params' = [params EXCEPT !["B"] = restored.params]
           /\ keyPair' = [keyPair EXCEPT !["B"] = restored.keyPair]
           /\ sharedSecrets' = [sharedSecrets EXCEPT !["B"] = restored.sharedSecrets]
    /\ last' = Null
    /\ UNCHANGED <<pending, nextKey, streams>>

NextPersist == NextSeq \/ PersistUnmarshal

SpecPersist == InitPersist /\ [][NextPersist]_vars

\* Transfer: three identities constructed with the same parameters; B is
\* fresh and is given the exported keys of A.
SpecTransfer == InitComm /\ [][NextSeq]_vars

\* ------------------------------------------- specification of the counters
\* One identity that generates a key pair and stores a peer's key, and whose
\* caller then issues encrypt calls without waiting; the provider's
\* getRandomValues returns any of RandomBlocks.
RandomBlocks == Counters \cup {[i \in 1..16 |-> 0]}

CounterGenerateKeyPair ==
    AllIdle /\ keyPair["A"] = Null /\ generateKeyPair("A", FALSE, {})
CounterGenerateKeyPairResume == generateKeyPairResume("A")
CounterSetRemotePublicKey ==
    /\ AllIdle /\ keyPair["A"] # Null /\ sharedSecrets["A"][unicast] = Null
    /\ setRemotePublicKey("A", PeerPublicText, Omitted)
CounterSetRemotePublicKeyResume1 == setRemotePublicKeyResume1("A")
CounterSetRemotePublicKeyResume2 == setRemotePublicKeyResume2("A")
CounterEncrypt ==
    /\ sharedSecrets["A"][unicast] # Null
    /\ \E plaintext \in Messages, counter \in RandomBlocks :
            encrypt("A", plaintext, Omitted, counter)
CounterEncryptResume == encryptResume("A")

NextCounter ==
    \/ CounterGenerateKeyPair \/ CounterGenerateKeyPairResume
    \/ CounterSetRemotePublicKey
    \/ CounterSetRemotePublicKeyResume1 \/ CounterSetRemotePublicKeyResume2
    \/ CounterEncrypt \/ CounterEncryptResume

SpecCounter == Init /\ [][NextCounter]_vars

\* -------------------------------------------- specification of the streams
\* The identities A and B generate their key pairs; A stores the key of B
\* under the default identifier, B stores the key of A, or that of another
\* peer, under the name of A.  At any time A is asked for an encrypt stage
\* and B for a decrypt stage, for the default peer or a named one; the
\* readable side of the encrypt stage is piped to the decrypt stage.
MaxChunks == 2
StreamBytes == {1, 255}
Chunks == UNION {[1..n -> StreamBytes] : n \in 0..MaxMsgLen}

StreamGenerateKeyPair ==
    AllIdle /\ \E p \in {"A", "B"} : keyPair[p] = Null /\ generateKeyPair(p, FALSE, {})
StreamGenerateKeyPairResume == \E p \in Parties : generateKeyPairResume(p)
StreamSetRemotePublicKey ==
    /\ AllIdle /\ keyPair["A"] # Null /\ keyPair["B"] # Null
    /\ \/ /\ sharedSecrets["A"][unicast] = Null
          /\ setRemotePublicKey("A", PublicText("B"), Omitted)
       \/ /\ sharedSecrets["B"][Str("A")] = Null
          /\ \E text \in {PublicText("A"), PeerPublicText} :
                setRemotePublicKey("B", text, Str("A"))
StreamSetRemotePublicKeyResume1 == \E p \in Parties : setRemotePublicKeyResume1(p)
StreamSetRemotePublicKeyResume2 == \E p \in Parties : setRemotePublicKeyResume2(p)
StreamEncryptStream ==
    AllIdle /\ \E identifier \in {Omitted, Str("B")} : encryptStream("A", identifier)
StreamDecryptStream ==
    AllIdle /\ \E identifier \in {Omitted, Str("A")} : decryptStream("B", identifier)
StreamWrite ==
    /\ Len(streams.written) < MaxChunks
    /\ \E chunk \in Chunks : write(chunk)
StreamEncryptTransform == \E counter \in RandomBlocks : encryptTransform(counter)
StreamEncryptTransformResume == encryptTransformResume
StreamDecryptTransform == decryptTransform
StreamDecryptTransformResume == decryptTransformResume

NextStream ==
    \/ StreamGenerateKeyPair \/ StreamGenerateKeyPairResume
    \/ StreamSetRemotePublicKey
    \/ StreamSetRemotePublicKeyResume1 \/ StreamSetRemotePublicKeyResume2
    \/ StreamEncryptStream \/ StreamDecryptStream
    \/ StreamWrite
    \/ StreamEncryptTransform \/ StreamEncryptTransformResume
    \/ StreamDecryptTransform \/ StreamDecryptTransformResume

SpecStream == InitComm /\ [][NextStream]_vars

\* The streams over a channel that corrupts: besides the envelopes of the
\* encrypt stage, the decrypt stage is handed a text that is no envelope, or
\* an envelope whose counter the provider rejects.
CorruptTexts ==
    {RawText,
     JsonText([kind |-> "envelope", buffer |-> JsonQuote(<<1>>),
                        counter |-> JsonQuote(<<0>>)])}

StreamCorrupt ==
    /\ Len(streams.wire) < MaxChunks
    /\ \E text \in CorruptTexts : corrupt(text)

NextStreamFault == NextStream \/ StreamCorrupt

SpecStreamFault == InitComm /\ [][NextStreamFault]_vars

\* ------------------------------------ specification of mismatched parties
\* A is constructed with the defaults, B with the defaults, with another key
\* length or with another counter length.  Each generates its key pair and
\* stores the key the other exported; one encrypts, the other decrypts.  The
\* plaintexts are empty, of one block and of two blocks.
MismatchChoices ==
    {[namedCurve |-> "P-256"], [keyLength |-> 128], [counterLength |-> 128]}
MismatchMessages == {<<>>, <<65>>, [i \in 1..17 |-> 65]}

InitMismatch ==
    /\ \E given \in MismatchChoices :
            params = [p \in Parties |-> IF p = "B" THEN Constructor(given)
                                        ELSE DefaultParams]
    /\ keyPair = [p \in Parties |-> Null]
    /\ sharedSecrets = [p \in Parties |-> EmptyStore]
    /\ pending = [p \in Parties |-> EmptyBag]
    /\ last = Null
    /\ nextKey = [p \in Parties |-> 0]
    /\ streams = NoStreams

MismatchPairs == {<<"A", "B">>, <<"B", "A">>}

MismatchGenerateKeyPair ==
    AllIdle /\ \E p \in {"A", "B"} : keyPair[p] = Null /\ generateKeyPair(p, FALSE, {})
MismatchGenerateKeyPairResume == \E p \in Parties : generateKeyPairResume(p)
MismatchSetRemotePublicKey ==
    AllIdle /\ \E pair \in MismatchPairs :
        /\ keyPair[pair[1]] # Null /\ keyPair[pair[2]] # Null
        /\ sharedSecrets[pair[1]][Str(pair[2])] = Null
        /\ setRemotePublicKey(pair[1], PublicText(pair[2]), Str(pair[2]))
MismatchSetRemotePublicKeyResume1 == \E p \in Parties : setRemotePublicKeyResume1(p)
MismatchSetRemotePublicKeyResume2 == \E p \in Parties : setRemotePublicKeyResume2(p)
MismatchEncrypt ==
    AllIdle /\ \E pair \in MismatchPairs :
        \E plaintext \in MismatchMessages, counter \in RandomBlocks :
            encrypt(pair[1], plaintext, Str(pair[2]), counter)
MismatchEncryptResume == \E p \in Parties : encryptResume(p)
MismatchDecrypt ==
    AllIdle /\ Sent # Null /\ \E pair \in MismatchPairs :
        pair[2] = Sent.sender /\ decrypt(pair[1], Sent, Str(pair[2]))
MismatchDecryptResume == \E p \in Parties : decryptResume(p)

NextMismatch ==
    \/ MismatchGenerateKeyPair \/ MismatchGenerateKeyPairResume
    \/ MismatchSetRemotePublicKey
    \/ MismatchSetRemotePublicKeyResume1 \/ MismatchSetRemotePublicKeyResume2
    \/ MismatchEncrypt \/ MismatchEncryptResume
    \/ MismatchDecrypt \/ MismatchDecryptResume

SpecMismatch == InitMismatch /\ [][NextMismatch]_vars

\* ----------------------------------------- specification of the envelopes
\* #marshalCiphertext is applied to a ciphertext and a counter, and
\* #unmarshalCiphertext to the text it returned.  The bytes are the ones
\* JSON writes in different ways: control characters, the quote, the
\* backslash, and the highest byte.
EnvelopeBytes == {0, 10, 31, 34, 92, 255}
EnvelopeBuffers == UNION {[1..n -> EnvelopeBytes] : n \in 0..MaxMsgLen}
EnvelopeCounters == RandomBlocks \cup {<<b>> : b \in EnvelopeBytes}

EnvelopeMarshal ==
    /\ \E buffer \in EnvelopeBuffers, counter \in EnvelopeCounters :
        last' = Outcome("A", Call("marshalCiphertext", "done", Omitted,
                                  [buffer |-> buffer, counter |-> counter],
                                  Null, "A", <<>>),
                        Ok(marshalCiphertext(buffer, counter)))
    /\ UNCHANGED <<params, keyPair, sharedSecrets, pending, nextKey, streams>>

EnvelopeUnmarshal ==
    /\ last # Null /\ last.call = "marshalCiphertext"
    /\ last' = Outcome("A", Call("unmarshalCiphertext", "done", Omitted,
                                 [buffer |-> last.input.buffer,
                                  counter |-> last.input.counter,
                                  text |-> last.value],
                                 Null, "A", <<>>),
                       unmarshalCiphertext(last.value))
    /\ UNCHANGED <<params, keyPair, sharedSecrets, pending, nextKey, streams>>

NextEnvelope == EnvelopeMarshal \/ EnvelopeUnmarshal

SpecEnvelope == Init /\ [][NextEnvelope]_vars

\* ------------------------------------------ specification of the failures
\* The transfer, and C is handed an envelope whose counter the provider
\* rejects.
RejectedEnvelope ==
    [text |-> JsonText([kind |-> "envelope", buffer |-> JsonQuote(<<1>>),
                        counter |-> JsonQuote(<<0>>)])]

FailureDecrypt ==
    /\ AllIdle /\ sharedSecrets["C"][Str("A")] # Null
    /\ decrypt("C", RejectedEnvelope, Str("A"))

NextFailure == NextSeq \/ FailureDecrypt

SpecFailure == InitComm /\ [][NextFailure]_vars

\* ------------------------------------- specification of overlapping peers
\* A generates one key pair; its caller then stores the keys of two peers
\* under their names and encrypts and decrypts for the peer B without
\* waiting for the calls to settle.  The key stored for C may be stored anew,
\* with another key.
StoredPublicText == marshalKey(StoredKeyPair.publicKey).value
PeerKeys ==
    {<<Str("B"), PeerPublicText>>, <<Str("C"), StoredPublicText>>,
     <<Str("C"), PeerPublicText>>}

OverlapGenerateKeyPair ==
    AllIdle /\ keyPair["A"] = Null /\ generateKeyPair("A", FALSE, {})
OverlapGenerateKeyPairResume == generateKeyPairResume("A")
OverlapSetRemotePublicKey ==
    /\ keyPair["A"] # Null
    /\ \E peer \in PeerKeys : setRemotePublicKey("A", peer[2], peer[1])
OverlapSetRemotePublicKeyResume1 == setRemotePublicKeyResume1("A")
OverlapSetRemotePublicKeyResume2 == setRemotePublicKeyResume2("A")
OverlapEncrypt ==
    \E plaintext \in ShortMessages, counter \in Counters :
        encrypt("A", plaintext, Str("B"), counter)
OverlapEncryptResume == encryptResume("A")
OverlapDecrypt == Sent # Null /\ decrypt("A", Sent, Str("B"))
OverlapDecryptResume == decryptResume("A")

OverlapResume ==
    \/ OverlapGenerateKeyPairResume
    \/ OverlapSetRemotePublicKeyResume1 \/ OverlapSetRemotePublicKeyResume2
    \/ OverlapEncryptResume \/ OverlapDecryptResume

NextOverlap ==
    \/ OverlapGenerateKeyPair \/ OverlapGenerateKeyPairResume
    \/ OverlapSetRemotePublicKey
    \/ OverlapSetRemotePublicKeyResume1 \/ OverlapSetRemotePublicKeyResume2
    \/ OverlapEncrypt \/ OverlapEncryptResume
    \/ OverlapDecrypt \/ OverlapDecryptResume

SpecOverlap == InitComm /\ [][NextOverlap]_vars

\* ----------------------------------------- specification of the parameters
\* A is constructed with a key length of 128 and otherwise the defaults; B
\* and C are constructed later, with any subset of the parameters or with
\* what exportParams returned.  The caller of marshal may assign to the
\* params of the value it got.
GivenA == [keyLength |-> 128]
ParamsOfA == Constructor(GivenA)
GivenValues == [counterLength |-> 128, namedCurve |-> "P-384", keyLength |-> 192]
ParamSubsets == {[f \in S |-> GivenValues[f]] : S \in SUBSET (DOMAIN DefaultParams)}

InitParams ==
    /\ params = [p \in Parties |-> IF p = "A" THEN ParamsOfA ELSE Null]
    /\ keyPair = [p \in Parties |-> Null]
    /\ sharedSecrets = [p \in Parties |-> EmptyStore]
    /\ pending = [p \in Parties |-> EmptyBag]
    /\ last = Null
    /\ nextKey = [p \in Parties |-> 0]
    /\ streams = NoStreams

ParamsConstruct ==
    AllIdle /\ \E p \in {"B", "C"} :
        \/ \E given \in ParamSubsets : construct(p, given, "none")
        \/ /\ last # Null /\ last.call = "exportParams"
           /\ construct(p, last.value, last.party)
ParamsGenerateKeyPair ==
    AllIdle /\ \E p \in Parties : keyPair[p] = Null /\ generateKeyPair(p, FALSE, {})
ParamsGenerateKeyPairResume == \E p \in Parties : generateKeyPairResume(p)
ParamsExportParams == AllIdle /\ \E p \in Parties : exportParams(p)
ParamsMarshal == AllIdle /\ \E p \in Parties : marshal(p)
ParamsAssign ==
    \E p \in Parties, field \in DOMAIN DefaultParams :
        assignMarshalledParam(p, field, GivenValues[field])

NextParams ==
    \/ ParamsConstruct
    \/ ParamsGenerateKeyPair \/ ParamsGenerateKeyPairResume
    \/ ParamsExportParams \/ ParamsMarshal \/ ParamsAssign

SpecParams == InitParams /\ [][NextParams]_vars

\* ------------------------------------------------------------- properties
\* The messages of the errors the class throws when a precondition on its
\* state fails, and when a private key may not be exported.
StateErrors == {"Key pair already exists", "Key pair not generated", "Shared secret not set"}
PermissionErrors == {"Private key is not extractable"}

PopulatingCalls == {"generateKeyPair", "importKeyPair"}
CipherCalls == {"encrypt", "decrypt"}

\* The latest step settled a call `op`.
Settled(ops) == last # Null /\ last.call \in ops

\* C1: a generateKeyPair or importKeyPair issued on an identity that has a
\* key pair (generated, imported, or restored by unmarshal) fails with the
\* state error and leaves the key pair exactly as it was.
C1_PopulateFailsWhenPresent ==
    (Settled(PopulatingCalls) /\ last.hadKeyPair) =>
        /\ ~last.ok
        /\ last.error \in StateErrors
        /\ last.trace = <<>>
        /\ keyPair[last.party] = last.kpBefore

\* An importKeyPair with well-formed texts failed on the identity restored by
\* unmarshal with a key pair handle.
C1_Witness ==
    /\ Settled({"importKeyPair"}) /\ last.hadKeyPair
    /\ last.input.privateKey = PeerPrivateText
    /\ last.kpBefore = StoredKeyPair
    /\ ~last.ok

\* C2: of two overlapping populating calls exactly one succeeds and the
\* other fails with the state error: a populating call issued while there
\* was no key pair, and settled when another call has set one meanwhile,
\* fails with the state error.
C2_OverlapExactlyOneSucceeds ==
    (Settled(PopulatingCalls) /\ ~last.hadKeyPair /\ last.kpBefore # Null) =>
        (~last.ok /\ last.error \in StateErrors)

\* C3: the key pair is written at most once: once it is there, no step
\* replaces or clears it.
C3_KeyPairWrittenOnce ==
    [][\A p \in Parties : keyPair[p] # Null => keyPair'[p] = keyPair[p]]_vars

\* C4: a setRemotePublicKey issued on an identity without a key pair fails
\* with the state error, whatever the text and the identifier, and stores no
\* entry.
C4_SetRemoteNeedsKeyPair ==
    (Settled({"setRemotePublicKey"}) /\ ~last.hadKeyPair) =>
        /\ ~last.ok
        /\ last.error \in StateErrors
        /\ sharedSecrets[last.party] = last.storeBefore

\* C5: an encrypt or decrypt issued for an identifier (named or left out)
\* under which no setRemotePublicKey stored an entry fails with the state
\* error, calls neither the provider's encrypt nor its decrypt, and changes
\* no state; for decrypt whatever the envelope text.
C5_CipherNeedsSecret ==
    (Settled(CipherCalls) /\ ~last.hadSecret) =>
        /\ ~last.ok
        /\ last.error \in StateErrors
        /\ last.trace = <<>>
        /\ keyPair[last.party] = last.kpBefore
        /\ sharedSecrets[last.party] = last.storeBefore

\* A call `op` of p is issued or settled by the step.
StepOf(p, op) ==
    \/ last' # Null /\ last'.call = op /\ last'.party = p
    \/ \E c \in BagToSet(pending'[p]) :
        c.call = op /\ CopiesIn(c, pending'[p]) > CopiesIn(c, pending[p])

\* C6: exportPublicKey fails with the state error when it is issued without
\* a key pair and succeeds when it is issued with one; no step of it changes
\* the key pair, the store or the parameters.
C6_ExportPublicKey ==
    [][\A p \in Parties : StepOf(p, "exportPublicKey") =>
          /\ UNCHANGED <<keyPair, sharedSecrets, params>>
          /\ last' # Null =>
                IF last'.hadKeyPair
                   THEN last'.ok /\ last'.value.kind = "json"
                   ELSE ~last'.ok /\ last'.error \in StateErrors]_vars

\* An exportPublicKey returned the text of the public key.
C6_Witness ==
    /\ Settled({"exportPublicKey"}) /\ last.ok
    /\ last.value = PublicText(last.party)

\* C7: exportPrivateKey fails with the state error when issued without a key
\* pair, with the permission error, which is another error, when the private
\* key is not extractable, and succeeds exactly when there is a key pair
\* whose private key is extractable.
C7_ExportPrivateKey ==
    /\ StateErrors \cap PermissionErrors = {}
    /\ Settled({"exportPrivateKey"}) =>
        /\ ~last.hadKeyPair => (~last.ok /\ last.error \in StateErrors)
        /\ (last.hadKeyPair /\ ~last.input.extractable) =>
                (~last.ok /\ last.error \in PermissionErrors)
        /\ last.ok <=> (last.hadKeyPair /\ last.input.extractable)

\* An exportPrivateKey was refused on a key pair that is not extractable.
C7_Witness ==
    /\ Settled({"exportPrivateKey"}) /\ last.hadKeyPair
    /\ ~last.input.extractable /\ ~last.ok

\* Every identity stored every other's exported public key under its name.
AllExchanged ==
    \A p \in Parties, q \in Parties : p # q => sharedSecrets[p][Str(q)] # Null

\* The latest step settled a decrypt, by `who`, of an envelope that another
\* identity returned from encrypt for the peer it named.
Delivered(who) ==
    /\ Settled({"decrypt"}) /\ last.party = who
    /\ sharedSecrets[last.input.sender][last.input.arg] # Null
    /\ sharedSecrets[who][Str(last.input.sender)] # Null

\* C8: between two identities with the same parameters that stored each
\* other's exported public key, decrypt of what encrypt returned for m
\* returns m, for every m, in both directions.
C8_RoundTrip ==
    \A r \in Parties :
        (Delivered(r) /\ last.input.arg = Str(r)) =>
            (last.ok /\ last.value = last.input.plaintext)

\* C9: after the pairwise exchange among three identities, the envelope one
\* returns for a named peer decrypts to m on that peer, and on the third
\* identity, under its entry for the sender, never to m.
C9_PerPeerIsolation ==
    \A r \in Parties :
        (AllExchanged /\ Delivered(r)) =>
            IF last.input.arg = Str(r)
               THEN last.ok /\ last.value = last.input.plaintext
               ELSE ~(last.ok /\ last.value = last.input.plaintext)

StringIdentifiers == {id \in Identifiers : id.kind = "string"}

\* C10: the default identifier collides with no string: a setRemotePublicKey
\* without an identifier changes what no string identifier reads from the
\* store, one with a string identifier changes nothing of what is read
\* without an identifier, and a cipher call reads nothing stored the other
\* way.
C10_UnicastNeverCollides ==
    [][last' # Null =>
          LET p == last'.party
          IN  /\ last'.call = "setRemotePublicKey" =>
                    IF last'.arg = Omitted
                       THEN \A s \in StringIdentifiers :
                                Lookup(sharedSecrets'[p], Resolve(s))
                                    = Lookup(sharedSecrets[p], Resolve(s))
                       ELSE Lookup(sharedSecrets'[p], Resolve(Omitted))
                                = Lookup(sharedSecrets[p], Resolve(Omitted))
              /\ (last'.call \in CipherCalls /\ last'.ok) =>
                    sharedSecrets[p][Resolve(last'.arg)] # Null]_vars

\* With a secret stored without an identifier, an encrypt for the string
\* "unicast" found no secret.
C10_Witness ==
    /\ Settled({"encrypt"}) /\ last.arg = Str("unicast")
    /\ last.storeBefore[unicast] # Null
    /\ ~last.ok /\ last.error = "Shared secret not set"

\* The secret setRemotePublicKey derives on p from the text of a peer's
\* public key and the private key of key pair kp.
DerivedSecret(p, kp, text) ==
    ProviderDeriveKey(unmarshalPublicKey(text, params[p].namedCurve).value,
                      kp.privateKey, params[p].keyLength).value

\* C11: a successful setRemotePublicKey(key, id) makes the entry of id the
\* secret derived from the identity's private key and that key, whatever the
\* entry was, and leaves every other entry, the key pair and the parameters
\* as they were.
C11_SetRemoteEffect ==
    (Settled({"setRemotePublicKey"}) /\ last.ok) =>
        LET p == last.party
        IN  /\ sharedSecrets[p][last.id]
                   = DerivedSecret(p, keyPair[p], last.input.text)
            /\ \A id \in Identifiers \ {last.id} :
                   sharedSecrets[p][id] = last.storeBefore[id]
            /\ keyPair[p] = last.kpBefore

\* The step builds B by unmarshal.
Restores == ~Constructed("B") /\ Constructed("B")'

\* C12: the value marshal returns carries the parameters and the key pair
\* handle only; the identity unmarshal builds from it has an empty store,
\* whatever the original held, and on it encrypt and decrypt fail with the
\* state error for every identifier no setRemotePublicKey has stored an entry
\* under since.
C12_RestoredStoreEmpty ==
    [][/\ Restores =>
            /\ DOMAIN last.value = {"kind", "keyPair", "params"}
            /\ sharedSecrets'["B"] = EmptyStore
       /\ (last' # Null /\ last'.call \in CipherCalls /\ last'.party = "B"
             /\ ~last'.hadSecret) =>
            (~last'.ok /\ last'.error \in StateErrors)]_vars

\* What decrypt returns for the bytes encrypt made of a plaintext.
Decoded(plaintext) == uint8ArrayToString(stringToUint8Array(plaintext))

\* Every entry that A and B both hold is the same secret.
SameSecrets ==
    \A id \in Identifiers :
        (sharedSecrets["A"][id] # Null /\ sharedSecrets["B"][id] # Null) =>
            sharedSecrets["A"][id] = sharedSecrets["B"][id]

\* B holds the key pair of A.
SameKeyPair == Constructed("B") /\ keyPair["A"] # Null /\ keyPair["B"] = keyPair["A"]

\* B, having stored the peer's key, settled a decrypt of an envelope the
\* peer C returned for A.
DecryptedForA ==
    /\ Settled({"decrypt"}) /\ last.party = "B" /\ last.hadSecret
    /\ last.input.sender = "C" /\ last.input.arg = Str("A")

\* C13: unmarshal(marshal(A)) has the parameters and the key pair handle of
\* A; once it has stored the peer's key again it holds the secret A holds,
\* and it decrypts what the peer encrypted for A.
C13_MarshalRoundTrip ==
    [][/\ Restores => (params'["B"] = params["A"] /\ keyPair'["B"] = keyPair["A"])
       /\ SameKeyPair' => SameSecrets'
       /\ (SameKeyPair' /\ DecryptedForA') =>
            (last'.ok /\ last'.value = Decoded(last'.input.plaintext))]_vars

\* The restored B, holding the secret A holds with the peer, decrypted what
\* the peer encrypted for A.
C13_Witness ==
    /\ SameKeyPair /\ DecryptedForA /\ last.ok
    /\ sharedSecrets["A"][Str("C")] # Null
    /\ sharedSecrets["B"][Str("C")] = sharedSecrets["A"][Str("C")]
    /\ last.value = <<65>>

\* B, without a key pair, settled a generateKeyPair with usages the provider
\* accepts, or an importKeyPair of the key texts A exported.
PopulatedB ==
    /\ Settled(PopulatingCalls) /\ last.party = "B" /\ ~last.hadKeyPair
    /\ IF last.call = "generateKeyPair"
          THEN last.input.usages = {}
          ELSE /\ last.input.privateKey.kind = "json"
               /\ last.input.privateKey = PrivateText("A")
               /\ last.input.publicKey = PublicText("A")

\* C14: marshal can be called in every state and changes nothing; it returns
\* the parameters and the key pair handle, null when there is no key pair;
\* unmarshal of a value with a null handle gives an identity without a key
\* pair, on which generateKeyPair or importKeyPair then succeeds.
C14_MarshalNoEffect ==
    [][/\ AllIdle => ENABLED SeqMarshal
       /\ (last' # Null /\ last'.call = "marshal") =>
            /\ last'.ok
            /\ last'.value.keyPair = keyPair[last'.party]
            /\ last'.value.params = params[last'.party]
            /\ UNCHANGED <<keyPair, sharedSecrets, params>>
       /\ (Restores /\ last.value.keyPair = Null) => keyPair'["B"] = Null
       /\ PopulatedB' => (last'.ok /\ keyPair'["B"] # Null)]_vars

\* marshal returned a null handle on A, and the identity restored from it
\* imported the key pair A generated later.
C14_Witness ==
    /\ PopulatedB /\ last.call = "importKeyPair" /\ last.ok
    /\ keyPair["B"] # Null

\* B settled an importKeyPair of the private and public key texts that A,
\* whose key pair is extractable, exported.
ImportedFromA ==
    /\ Settled({"importKeyPair"}) /\ last.party = "B"
    /\ keyPair["A"].privateKey.extractable
    /\ last.input.privateKey = PrivateText("A")
    /\ last.input.publicKey = PublicText("A")

\* C15: a fresh identity with the parameters of A that imports the private
\* and public keys A exported holds the key pair of A: with every peer key
\* it stores it derives the secret A derives, and it decrypts what a peer
\* encrypted for A.
C15_PrivateKeyTransfer ==
    [][/\ ImportedFromA' => (last'.ok /\ keyPair'["B"] = keyPair'["A"])
       /\ (SameKeyPair' /\ params'["B"] = params'["A"]) => SameSecrets'
       /\ (SameKeyPair' /\ DecryptedForA') =>
            (last'.ok /\ last'.value = Decoded(last'.input.plaintext))]_vars

\* B, holding the key pair it imported from A and the secret A holds with
\* the peer, decrypted what the peer encrypted for A.
C15_Witness ==
    /\ SameKeyPair /\ DecryptedForA /\ last.ok
    /\ keyPair["A"].privateKey.extractable
    /\ sharedSecrets["A"][Str("C")] # Null
    /\ sharedSecrets["B"][Str("C")] = sharedSecrets["A"][Str("C")]
    /\ last.value = last.input.plaintext

\* C16: a call that fails, at a precondition or at any of its provider
\* calls, leaves the key pair, the store and the parameters as they were
\* before it: no step changes them but the one that settles a call with
\* success.
C16_NoPartialMutation ==
    [][(last' = Null \/ ~last'.ok) => UNCHANGED <<keyPair, sharedSecrets, params>>]_vars

\* On B, which imported a private key that may not derive keys, a
\* setRemotePublicKey failed at deriveKey and the store is still empty.
C16_Witness ==
    /\ Settled({"setRemotePublicKey"}) /\ last.party = "B" /\ ~last.ok
    /\ last.trace = <<"importKey", "deriveKey">>
    /\ sharedSecrets["B"] = EmptyStore

\* The encrypt calls of p that are in flight or were settled by the latest
\* step, each with the identifier and the counter it used.
EncryptCalls(p) ==
    {[id |-> c.id, counter |-> c.input.counter, plaintext |-> c.input.plaintext,
      settled |-> FALSE] : c \in {c \in BagToSet(pending[p]) : c.call = "encrypt"}}
    \cup (IF Settled({"encrypt"}) /\ last.party = p /\ last.hadSecret
             THEN {[id |-> last.id, counter |-> last.input.counter,
                    plaintext |-> last.input.plaintext, settled |-> TRUE]}
             ELSE {})

\* C17: no two encrypt calls under the same secret use the same counter.
C17_CounterUnique ==
    \A p \in Parties :
        /\ \A c \in BagToSet(pending[p]) :
                c.call = "encrypt" => CopiesIn(c, pending[p]) = 1
        /\ \A c1 \in EncryptCalls(p), c2 \in EncryptCalls(p) :
                (c1 # c2 /\ c1.id = c2.id) => c1.counter # c2.counter


\* The calls that return a transform stage.
StreamCalls == {"encryptStream", "decryptStream"}

\* C18: encryptStream and decryptStream called for a peer, named or default,
\* for which no secret exists fail in the call itself with a StateError,
\* whether the identity has a key pair or not, and return no stage: the
\* streams are as they were, no chunk was taken.
C18_StreamNeedsSecret ==
    [][(last' # Null /\ last'.call \in StreamCalls /\ ~last'.hadSecret) =>
            /\ ~last'.ok /\ last'.error \in StateErrors
            /\ UNCHANGED <<streams, pending>>]_vars

\* decryptStream for a named peer failed on an identity that has a key pair
\* and a secret for no peer, while an encrypt stage exists.
C18_Witness ==
    /\ Settled({"decryptStream"}) /\ ~last.ok /\ last.hadKeyPair
    /\ last.arg = Str("A") /\ sharedSecrets[last.party] = EmptyStore
    /\ streams.encrypt # Null

\* How many chunks the stage `op` has taken and finished with.
Finished(op) ==
    streams[op].taken - (IF streams[op].busy = Null THEN 0 ELSE 1)

\* The envelopes encrypt returns for a chunk under the secret of the stage.
EnvelopesOf(stage, chunk) ==
    {marshalCiphertext(
        ProviderEncrypt(sharedSecrets[stage.party][stage.id], counter,
                        params[stage.party].counterLength, chunk).value,
        counter) : counter \in RandomBlocks}

\* The chunk decrypt recovers from an envelope under the secret of the stage.
ChunkOf(stage, envelope) ==
    LET parsed == unmarshalCiphertext(envelope).value
    IN  ProviderDecrypt(sharedSecrets[stage.party][stage.id], parsed.counter,
                        params[stage.party].counterLength, parsed.buffer).value

RECURSIVE Flatten(_)
Flatten(chunks) ==
    IF chunks = <<>> THEN <<>> ELSE Head(chunks) \o Flatten(Tail(chunks))

\* The encrypt stage of p for the identifier under which p stored the key q
\* exported, and the decrypt stage of q for the identifier under which q
\* stored the key p exported.
Piped(p, q) ==
    /\ streams.encrypt # Null /\ streams.encrypt.party = p
    /\ streams.decrypt # Null /\ streams.decrypt.party = q
    /\ sharedSecrets[p][streams.encrypt.id]
            = DerivedSecret(p, keyPair[p], PublicText(q))
    /\ sharedSecrets[q][streams.decrypt.id]
            = DerivedSecret(q, keyPair[q], PublicText(p))

C21_DecryptFailureTerminal ==
    [][/\ (streams.decrypt # Null /\ streams.decrypt.error # Null) =>
                /\ streams'.decrypt = streams.decrypt
                /\ streams'.read = streams.read
       /\ (streams'.decrypt # Null /\ streams'.decrypt.error = Null) =>
                Len(streams'.read) = Finished("decrypt")']_vars

\* The decrypt stage emitted a chunk, then failed in the provider on the
\* next envelope, and an envelope of the encrypt stage waits behind it.
C21_Witness ==
    /\ streams.decrypt # Null /\ streams.decrypt.error = Err("OperationError")
    /\ Len(streams.read) = 1 /\ streams.decrypt.taken = 2
    /\ Len(streams.wire) = 3

\* C22: exportParams succeeds in every state of the identity, with or
\* without a key pair, and returns the parameters the identity was
\* constructed with; an identity constructed from the value returned has the
\* parameters the exporting identity was constructed with.
C22_ExportParams ==
    /\ Settled({"exportParams"}) =>
            /\ last.ok
            /\ last.party = "A" => last.value = ParamsOfA
    /\ (Settled({"constructor"}) /\ last.input.from = "A") =>
            params[last.party] = ParamsOfA

\* C24: the parameters of an identity never change once it is constructed,
\* whatever is called on it and whatever the caller does with the values
\* marshal returned.
C24_ParamsImmutable ==
    [][\A p \in Parties : params[p] # Null => params'[p] = params[p]]_vars

\* C25: construction with a subset of the parameters keeps every parameter
\* supplied and gives every parameter omitted its default, counterLength 64,
\* namedCurve P-256, keyLength 256; it leaves the parameters of every other
\* identity as they were.
C25_ConstructorDefaults ==
    [][(last' # Null /\ last'.call = "constructor") =>
        LET p == last'.party
            given == last'.input.given
        IN  /\ \A f \in DOMAIN given : params'[p][f] = given[f]
            /\ "counterLength" \notin DOMAIN given => params'[p].counterLength = 64
            /\ "namedCurve" \notin DOMAIN given => params'[p].namedCurve = "P-256"
            /\ "keyLength" \notin DOMAIN given => params'[p].keyLength = 256
            /\ \A q \in Parties \ {p} : params'[q] = params[q]]_vars

\* An identity was constructed with a curve only, after another was
\* constructed with all three parameters; a third has its key length of 128.
C25_Witness ==
    /\ Settled({"constructor"}) /\ last.input.from = "none"
    /\ DOMAIN last.input.given = {"namedCurve"}
    /\ params[last.party] = [counterLength |-> 64, namedCurve |-> "P-384", keyLength |-> 256]
    /\ \E q \in Parties \ {last.party} : params[q] = GivenValues
    /\ params["A"] = ParamsOfA

\* C23: when calls of setRemotePublicKey for distinct identifiers overlap on
\* an identity, each can go on to its end, each succeeds and makes the entry
\* of its identifier the secret derived from the key it was given, and
\* leaves the entries of the other identifiers as they were; an encrypt or a
\* decrypt for a peer whose secret was stored returns what it returns with
\* that secret, whatever is stored for another peer meanwhile.
C23_PeersDoNotInterfere ==
    /\ pending["A"] # EmptyBag => ENABLED OverlapResume
    /\ Settled({"setRemotePublicKey"}) =>
        /\ last.ok
        /\ sharedSecrets["A"][last.id]
                = DerivedSecret("A", keyPair["A"], last.input.text)
        /\ \A id \in Identifiers \ {last.id} :
                sharedSecrets["A"][id] = last.storeBefore[id]
    /\ (Settled({"encrypt"}) /\ last.hadSecret) =>
        /\ last.ok
        /\ last.value = marshalCiphertext(
                ProviderEncrypt(DerivedSecret("A", keyPair["A"], PeerPublicText),
                                last.input.counter, params["A"].counterLength,
                                stringToUint8Array(last.input.plaintext)).value,
                last.input.counter)
    /\ (Settled({"decrypt"}) /\ last.hadSecret) =>
        /\ last.ok
        /\ last.value = Decoded(last.input.plaintext)

\* The call for C has just settled and changed the entry of C, while the
\* call for B, issued before, still awaits the provider and the entry of B
\* is not yet written.
C23_Witness ==
    /\ Settled({"setRemotePublicKey"}) /\ last.id = Str("C") /\ last.ok
    /\ last.storeBefore[Str("C")] # Null
    /\ last.storeBefore[Str("C")] # sharedSecrets["A"][Str("C")]
    /\ sharedSecrets["A"][Str("B")] = Null
    /\ \E c \in BagToSet(pending["A"]) :
            c.call = "setRemotePublicKey" /\ c.id = Str("B") /\ c.pc = "derived"

\* The provider operations a call of each method invokes, in order.
ProviderSteps ==
    [generateKeyPair |-> <<"generateKey">>, exportPublicKey |-> <<"exportKey">>,
     exportPrivateKey |-> <<"exportKey">>,
     importKeyPair |-> <<"importKey", "importKey">>,
     setRemotePublicKey |-> <<"importKey", "deriveKey">>,
     encrypt |-> <<"getRandomValues", "encrypt">>, decrypt |-> <<"decrypt">>]

\* C26: a call invokes each provider operation it needs at most once, in
\* order, and a call whose awaited provider operation failed ends at that
\* step, failing with the failure of the provider: it invokes nothing more
\* and returns no result.
C26_NoRetry ==
    [][/\ (last' # Null /\ last'.call \in DOMAIN ProviderSteps) =>
            /\ Len(last'.trace) <= Len(ProviderSteps[last'.call])
            /\ last'.trace = SubSeq(ProviderSteps[last'.call], 1, Len(last'.trace))
       /\ \A p \in Parties : \A c \in BagToSet(pending[p]) :
            (~c.held.ok /\ CopiesIn(c, pending'[p]) < CopiesIn(c, pending[p])) =>
                /\ last' # Null /\ last'.call = c.call
                /\ ~last'.ok /\ last'.error = c.held.error]_vars

\* decrypt failed with the failure of the provider's decrypt, called once.
C26_Witness ==
    /\ Settled({"decrypt"}) /\ ~last.ok /\ last.error = "OperationError"
    /\ last.trace = <<"decrypt">>

\* C27: an encrypt that returns has asked the provider for random bytes
\* once, got 16 of them, handed these as the counter to the provider's
\* encrypt, and returned an envelope that carries these same 16 bytes with
\* the ciphertext made under them.
C27_CounterPerCall ==
    (Settled({"encrypt"}) /\ last.ok) =>
        LET envelope == unmarshalCiphertext(last.value)
        IN  /\ Cardinality({i \in DOMAIN last.trace :
                                last.trace[i] = "getRandomValues"}) = 1
            /\ Len(last.input.counter) = 16
            /\ envelope.ok
            /\ envelope.value.counter = last.input.counter
            /\ envelope.value.buffer
                 = ProviderEncrypt(sharedSecrets[last.party][last.id],
                        last.input.counter, params[last.party].counterLength,
                        stringToUint8Array(last.input.plaintext)).value

\* An encrypt returned with one counter while another encrypt, issued
\* without waiting, is in flight with the other counter.
C27_Witness ==
    /\ Settled({"encrypt"}) /\ last.ok /\ Len(last.input.plaintext) = 2
    /\ \E c \in BagToSet(pending["A"]) :
            c.call = "encrypt" /\ c.input.counter # last.input.counter

\* C28: #unmarshalCiphertext of the text #marshalCiphertext made of a
\* ciphertext and a counter returns that ciphertext and that counter, for
\* every sequence of bytes, the empty ciphertext included.
C28_EnvelopeRoundTrip ==
    Settled({"unmarshalCiphertext"}) =>
        /\ last.ok
        /\ last.value.buffer = last.input.buffer
        /\ last.value.counter = last.input.counter

\* A ciphertext of a quote and a backslash, and a counter of 16 zero bytes,
\* came back from a text that is longer than the 18 bytes.
C28_Witness ==
    /\ Settled({"unmarshalCiphertext"})
    /\ last.input.buffer = <<34, 92>> /\ last.value.buffer = <<34, 92>>
    /\ last.input.counter = [i \in 1..16 |-> 0]
    /\ Len(last.input.text.value.buffer) = 4
    /\ Len(last.input.text.value.counter) = 96

\* The methods that only read the identity.
ReadOnlyCalls == {"encrypt", "decrypt", "exportPublicKey", "exportPrivateKey", "marshal"}

\* C29: no step of encrypt, decrypt, exportPublicKey, exportPrivateKey or
\* marshal, be it the step that issues the call, one that awaits or the one
\* that settles it with a result or a failure, changes the key pair, an
\* entry of the store or the parameters; and a step that changes the store
\* settles a setRemotePublicKey with success.
C29_ReadOnlyCalls ==
    [][/\ (last' # Null /\ last'.call \in ReadOnlyCalls) =>
            UNCHANGED <<keyPair, sharedSecrets, params>>
       /\ (\E p \in Parties : \E c \in BagToSet(pending'[p]) :
                /\ c.call \in ReadOnlyCalls
                /\ CopiesIn(c, pending'[p]) > CopiesIn(c, pending[p])) =>
            UNCHANGED <<keyPair, sharedSecrets, params>>
       /\ sharedSecrets' # sharedSecrets =>
            (last' # Null /\ last'.call = "setRemotePublicKey" /\ last'.ok)]_vars

\* An encrypt returned an envelope on an identity that holds a key pair and
\* a secret, and both are what they were.
C29_Witness ==
    /\ Settled({"encrypt"}) /\ last.ok /\ last.hadSecret
    /\ keyPair[last.party] # Null /\ keyPair[last.party] = last.kpBefore
    /\ sharedSecrets[last.party][last.id] # Null
    /\ sharedSecrets[last.party] = last.storeBefore

\* A and B differ in the key length, in the counter length.
KeyLengthDiffers == params["A"].keyLength # params["B"].keyLength
CounterLengthDiffers == params["A"].counterLength # params["B"].counterLength

\* The latest step settled a decrypt of an envelope the other identity
\* returned, each holding a secret for the other.
MismatchDelivered ==
    /\ Settled({"decrypt"}) /\ last.hadSecret
    /\ sharedSecrets[last.input.sender][last.input.arg] # Null

\* The counter lengths 64 and 128 give different counter blocks for one of
\* the blocks of a message of n bytes under this counter.
CounterBlocksDiffer(counter, n) ==
    \E j \in 0..((n + 15) \div 16 - 1) :
        CounterBlock(counter, j, 64) # CounterBlock(counter, j, 128)

C31_SecretsOfCurrentKey ==
    \A id \in Identifiers :
        sharedSecrets["A"][id] # Null =>
            /\ keyPair["A"] # Null
            /\ sharedSecrets["A"][id]
                    = DerivedSecret("A", keyPair["A"], PeerPublicText)

\* C32: the presence check lets through only identifiers under which
\* setRemotePublicKey stored an entry: an identifier passes the check only
\* when the store has an own entry for it, and on an identity whose store is
\* empty encrypt and decrypt fail with the state error for every string
\* identifier, names every plain object inherits included.
C32_OnlyStoredIdentifiersPass ==
    /\ \A id \in Identifiers :
           Lookup(sharedSecrets["A"], id) # Null => sharedSecrets["A"][id] # Null
    /\ (Settled(CipherCalls) /\ last.storeBefore = EmptyStore
           /\ last.id.kind = "string") =>
          (~last.ok /\ last.error \in StateErrors)

\* ------------------------------------------- specification of the re-keying
\* A generates its key pair once, then its caller sets the secret of B from
\* either of two public keys, encrypts for B and decrypts what it encrypted,
\* without waiting for a call to settle before issuing the next.
RekeyTexts == {PeerPublicText, StoredPublicText}

RekeyGenerateKeyPair ==
    AllIdle /\ keyPair["A"] = Null /\ generateKeyPair("A", FALSE, {})
RekeyGenerateKeyPairResume == generateKeyPairResume("A")
RekeySetRemotePublicKey ==
    /\ keyPair["A"] # Null
    /\ \E text \in RekeyTexts : setRemotePublicKey("A", text, Str("B"))
RekeySetRemotePublicKeyResume1 == setRemotePublicKeyResume1("A")
RekeySetRemotePublicKeyResume2 == setRemotePublicKeyResume2("A")
RekeyEncrypt ==
    \E plaintext \in ShortMessages, counter \in Counters :
        encrypt("A", plaintext, Str("B"), counter)
RekeyEncryptResume == encryptResume("A")
RekeyDecrypt == Sent # Null /\ decrypt("A", Sent, Str("B"))
RekeyDecryptResume == decryptResume("A")

NextRekey ==
    \/ RekeyGenerateKeyPair \/ RekeyGenerateKeyPairResume
    \/ RekeySetRemotePublicKey
    \/ RekeySetRemotePublicKeyResume1 \/ RekeySetRemotePublicKeyResume2
    \/ RekeyEncrypt \/ RekeyEncryptResume
    \/ RekeyDecrypt \/ RekeyDecryptResume

SpecRekey == InitComm /\ [][NextRekey]_vars

\* The calls `op` of A that await the provider.
Awaiting(op) == {c \in BagToSet(pending["A"]) : c.call = op}

\* What the provider was asked when the cipher call c was issued, had it been
\* given the entry the store holds for the identifier of c in this state.
AnswerWithStoredSecret(c) ==
    LET secret == Lookup(sharedSecrets["A"], c.id)
    IN  IF c.call = "encrypt"
        THEN ProviderEncrypt(secret, c.input.counter, params["A"].counterLength,
                             stringToUint8Array(c.input.plaintext))
        ELSE ProviderDecrypt(secret,
                             unmarshalCiphertext(c.input.text).value.counter,
                             params["A"].counterLength,
                             unmarshalCiphertext(c.input.text).value.buffer)

\* What a cipher call in flight returns from the provider's answer it holds.
ReturnedFrom(c) ==
    IF ~c.held.ok THEN c.held
    ELSE IF c.call = "encrypt"
        THEN Ok(marshalCiphertext(c.held.value, c.input.counter))
    ELSE Ok(uint8ArrayToString(c.held.value))

\* C33: an encrypt or decrypt works with the secret the store holds for the
\* identifier in the state where the call is made: a call that starts to
\* await holds the provider's answer for the entry that passed the check in
\* that very state, and what it returns is made of that answer, whatever a
\* setRemotePublicKey for the same identifier has stored in the meantime.
C33_CipherUsesSecretAtCall ==
    [][/\ \A c \in BagToSet(pending'["A"]) \ BagToSet(pending["A"]) :
             c.call \in CipherCalls =>
                 /\ Lookup(sharedSecrets["A"], c.id) # Null
                 /\ c.held = AnswerWithStoredSecret(c)
       /\ (last' # Null /\ last'.call \in CipherCalls /\ pending' # pending) =>
             \E c \in Awaiting(last'.call) :
                 /\ c.id = last'.id /\ c.input = last'.input
                 /\ pending'["A"] (+) SetToBag({c}) = pending["A"]
                 /\ [ok |-> last'.ok, value |-> last'.value,
                     error |-> last'.error] = ReturnedFrom(c)]_vars

\* An encrypt for B settles with an envelope made with a secret that is no
\* longer the one the store holds for B.
C33_Witness ==
    /\ Settled({"encrypt"}) /\ last.ok /\ last.id = Str("B")
    /\ \E text \in RekeyTexts :
          /\ sharedSecrets["A"][Str("B")] # DerivedSecret("A", keyPair["A"], text)
          /\ last.value = marshalCiphertext(
                 ProviderEncrypt(DerivedSecret("A", keyPair["A"], text),
                     last.input.counter, params["A"].counterLength,
                     stringToUint8Array(last.input.plaintext)).value,
                 last.input.counter)

\* The secrets A can derive for B from the public keys its caller has.
RekeySecrets ==
    IF keyPair["A"] = Null THEN {}
    ELSE {DerivedSecret("A", keyPair["A"], text) : text \in RekeyTexts}

\* C34: when setRemotePublicKey calls for one identifier overlap, each call
\* writes the entry when its own derivation has completed and no other step
\* changes it, so that the entry once both have settled is the secret of the
\* call that completed last; in every state on the way the entry is absent
\* or one of the complete secrets, the prior one included.
C34_LastDerivationWins ==
    [][/\ IF last' # Null /\ last'.call = "setRemotePublicKey" /\ last'.ok
          THEN \E c \in Awaiting("setRemotePublicKey") :
                  /\ c.pc = "derived" /\ c.input = last'.input
                  /\ pending'["A"] (+) SetToBag({c}) = pending["A"]
                  /\ sharedSecrets'["A"][Str("B")] = c.held.value
                  /\ c.held.value = DerivedSecret("A", keyPair["A"], c.input.text)
          ELSE sharedSecrets'["A"][Str("B")] = sharedSecrets["A"][Str("B")]
       /\ sharedSecrets'["A"][Str("B")] \in {Null} \cup RekeySecrets]_vars

\* A setRemotePublicKey for B settles and replaces the secret B had while
\* another one for B, given the other key, still awaits its derivation's
\* answer.
C34_Witness ==
    /\ Settled({"setRemotePublicKey"}) /\ last.ok /\ last.id = Str("B")
    /\ last.storeBefore[Str("B")] # Null
    /\ last.storeBefore[Str("B")] # sharedSecrets["A"][Str("B")]
    /\ \E c \in Awaiting("setRemotePublicKey") :
          /\ c.pc = "derived" /\ c.id = Str("B")
          /\ c.held.ok /\ c.held.value # sharedSecrets["A"][Str("B")]

\* The key pair kp was made by importKeyPair from the key texts of A: the
\* scalars the provider draws for two identities differ.
HoldsKeyOfA(kp) ==
    /\ kp # Null /\ keyPair["A"] # Null
    /\ kp.privateKey.d = keyPair["A"].privateKey.d

\* C35: the private key of a key pair importKeyPair installed is extractable
\* and has the material of the text it was imported from, whatever the text
\* says of usages and whatever the extractability of the key pair whose
\* material it is; on that identity exportPrivateKey is never refused for
\* lack of permission and returns that material.
C35_ImportedKeyExtractable ==
    /\ (Settled({"importKeyPair"}) /\ last.ok) =>
          LET imported == JsonParse(last.input.privateKey).value
              privateKey == keyPair[last.party].privateKey
          IN  /\ privateKey.extractable
              /\ privateKey.d = imported.d /\ privateKey.q = imported.x
              /\ privateKey.crv = imported.crv
    /\ (Settled({"exportPrivateKey"}) /\ last.party = "B"
           /\ HoldsKeyOfA(last.kpBefore)) =>
          /\ last.error \notin PermissionErrors
          /\ last.ok
          /\ JsonParse(last.value).value.d = keyPair["A"].privateKey.d
          /\ JsonParse(last.value).value.x = keyPair["A"].privateKey.q
          /\ JsonParse(last.value).value.ext

\* B exported the private key it had imported from a text of A that allows
\* deriveBits only.
C35_Witness ==
    /\ Settled({"exportPrivateKey"}) /\ last.party = "B" /\ last.ok
    /\ HoldsKeyOfA(last.kpBefore)
    /\ JsonParse(last.value).value.key_ops = {"deriveBits"}
    /\ JsonParse(last.value).value.d = keyPair["A"].privateKey.d

\* ------------------------------------------------ specification of replays
\* A generates its key pair and stores the key of its peer once; its caller
\* then hands it envelopes the peer made with the same secret, any of them
\* at any time and any number of times, without waiting for a decrypt to
\* settle before issuing the next.
ReplaySecret == DerivedSecret("A", keyPair["A"], PeerPublicText)

ReplayEnvelope(plaintext, counter) ==
    [text |-> marshalCiphertext(
                  ProviderEncrypt(ReplaySecret, counter, params["A"].counterLength,
                                  stringToUint8Array(plaintext)).value,
                  counter),
     plaintext |-> plaintext, sender |-> "B", arg |-> unicast]

ReplayEnvelopes ==
    {ReplayEnvelope(plaintext, counter) :
        plaintext \in Messages, counter \in RandomBlocks}

ReplayGenerateKeyPair ==
    AllIdle /\ keyPair["A"] = Null /\ generateKeyPair("A", FALSE, {})
ReplayGenerateKeyPairResume == generateKeyPairResume("A")
ReplaySetRemotePublicKey ==
    /\ AllIdle /\ keyPair["A"] # Null /\ sharedSecrets["A"][unicast] = Null
    /\ setRemotePublicKey("A", PeerPublicText, Omitted)
ReplaySetRemotePublicKeyResume1 == setRemotePublicKeyResume1("A")
ReplaySetRemotePublicKeyResume2 == setRemotePublicKeyResume2("A")
ReplayDecrypt ==
    /\ sharedSecrets["A"][unicast] # Null
    /\ \E message \in ReplayEnvelopes : decrypt("A", message, Omitted)
ReplayDecryptResume == decryptResume("A")

NextReplay ==
    \/ ReplayGenerateKeyPair \/ ReplayGenerateKeyPairResume
    \/ ReplaySetRemotePublicKey
    \/ ReplaySetRemotePublicKeyResume1 \/ ReplaySetRemotePublicKeyResume2
    \/ ReplayDecrypt \/ ReplayDecryptResume

SpecReplay == InitComm /\ [][NextReplay]_vars

\* What the envelope `text` decrypts to under `secret` and the parameters of
\* A, from the counter the envelope carries.
DecryptedUnder(secret, text) ==
    LET parsed == unmarshalCiphertext(text).value
    IN  uint8ArrayToString(ProviderDecrypt(secret, parsed.counter,
                               params["A"].counterLength, parsed.buffer).value)

\* C36: decrypt keeps no counter of its own from one call to the next: with
\* the stored secret fixed, what a decrypt returns is decided by its envelope
\* alone, the counter it carries included, whichever envelopes were
\* decrypted before it, this one among them, and in whatever order; and the
\* store is after the call what it was.
C36_DecryptStateless ==
    (Settled({"decrypt"}) /\ last.input \in ReplayEnvelopes) =>
        /\ last.ok
        /\ last.value = DecryptedUnder(ReplaySecret, last.input.text)
        /\ sharedSecrets["A"] = last.storeBefore
        /\ sharedSecrets["A"][unicast] = ReplaySecret

\* A decrypt of an envelope with a counter that wraps settles with the
\* plaintext while a decrypt of the same envelope, issued before it settled,
\* still awaits the provider.
C36_Witness ==
    /\ Settled({"decrypt"}) /\ last.ok /\ last.input \in ReplayEnvelopes
    /\ last.value = <<65, 65>>
    /\ unmarshalCiphertext(last.input.text).value.counter \in Counters
    /\ \E c \in Awaiting("decrypt") : c.input = last.input

====
